---- MODULE Spec2Model ----
(***************************************************************************)
(* A model of the artefact staging pipeline of netsuke                     *)
(* (.github/actions/stage/scripts/stage_common/staging).                   *)
(*                                                                         *)
(* Text is modelled as a sequence of one-character strings, so that        *)
(* template rendering, wildcard detection, path splitting, glob matching   *)
(* and the ordering of path strings are computed character by character,   *)
(* as the Python code and the library calls it makes compute them.         *)
(* A path is the sequence of its parts; the filesystem is a function from  *)
(* the absolute paths that exist to their node (directory, or regular file *)
(* with bytes and modification time).                                      *)
(***************************************************************************)
EXTENDS Integers, Sequences, FiniteSets, TLC

\* ------------------------------------------------------------------------
\* Bounds of the model
\* ------------------------------------------------------------------------
MaxArtefacts == 2
MaxRuns == 2

\* ------------------------------------------------------------------------
\* Text
\* ------------------------------------------------------------------------
\* The printable ASCII characters in code-point order, starting at 32
\* (code point 96, the grave accent, is spelled GRAVE: it is not used).
Ascii ==
    << " ", "!", "\"", "#", "$", "%", "&", "'", "(", ")", "*", "+", ",", "-",
       ".", "/", "0", "1", "2", "3", "4", "5", "6", "7", "8", "9", ":", ";",
       "<", "=", ">", "?", "@", "A", "B", "C", "D", "E", "F", "G", "H", "I",
       "J", "K", "L", "M", "N", "O", "P", "Q", "R", "S", "T", "U", "V", "W",
       "X", "Y", "Z", "[", "\\", "]", "^", "_", "GRAVE", "a", "b", "c", "d", "e",
       "f", "g", "h", "i", "j", "k", "l", "m", "n", "o", "p", "q", "r", "s",
       "t", "u", "v", "w", "x", "y", "z", "{", "|", "}", "~" >>

OrdTable == [c \in {Ascii[i] : i \in 1..Len(Ascii)} |->
                31 + (CHOOSE i \in 1..Len(Ascii) : Ascii[i] = c)]

\* ord(c) of Python for the characters the model uses.
Ord(c) == IF c = "\n" THEN 10 ELSE IF c = "\r" THEN 13 ELSE OrdTable[c]

\* Python's s < t on str: lexicographic by code point, a proper prefix first.
RECURSIVE StrLess(_, _)
StrLess(s, t) ==
    IF t = <<>> THEN FALSE
    ELSE IF s = <<>> THEN TRUE
    ELSE IF s[1] = t[1] THEN StrLess(Tail(s), Tail(t))
    ELSE Ord(s[1]) < Ord(t[1])

\* Python's a < b on tuples/lists of str (the parts of two paths).
RECURSIVE PartsLess(_, _)
PartsLess(p, q) ==
    IF q = <<>> THEN FALSE
    ELSE IF p = <<>> THEN TRUE
    ELSE IF p[1] = q[1] THEN PartsLess(Tail(p), Tail(q))
    ELSE StrLess(p[1], q[1])

\* sep.join(items)
RECURSIVE StrJoin(_, _)
StrJoin(sep, items) ==
    IF items = <<>> THEN <<>>
    ELSE IF Len(items) = 1 THEN items[1]
    ELSE items[1] \o sep \o StrJoin(sep, Tail(items))

\* s.split(c): the pieces of s between occurrences of the character c.
RECURSIVE SplitAcc(_, _, _)
SplitAcc(s, c, cur) ==
    IF s = <<>> THEN <<cur>>
    ELSE IF s[1] = c THEN <<cur>> \o SplitAcc(Tail(s), c, <<>>)
    ELSE SplitAcc(Tail(s), c, Append(cur, s[1]))

Split(s, c) == SplitAcc(s, c, <<>>)

IsPrefix(p, q) == Len(p) <= Len(q) /\ SubSeq(q, 1, Len(p)) = p

\* The set of elements of a sequence.
Range(seq) == {seq[i] : i \in 1..Len(seq)}

\* sorted(seq) for a list of str: a stable insertion sort by StrLess.
RECURSIVE InsertStr(_, _)
InsertStr(x, sorted) ==
    IF sorted = <<>> THEN <<x>>
    ELSE IF StrLess(x, sorted[1]) THEN <<x>> \o sorted
    ELSE <<sorted[1]>> \o InsertStr(x, Tail(sorted))

RECURSIVE SortStrs(_)
SortStrs(seq) ==
    IF seq = <<>> THEN <<>>
    ELSE InsertStr(seq[Len(seq)], SortStrs(SubSeq(seq, 1, Len(seq) - 1)))

\* sorted(seq) for a list of paths: paths compare by their parts.
RECURSIVE InsertPath(_, _)
InsertPath(x, sorted) ==
    IF sorted = <<>> THEN <<x>>
    ELSE IF PartsLess(x.parts, sorted[1].parts) THEN <<x>> \o sorted
    ELSE <<sorted[1]>> \o InsertPath(x, Tail(sorted))

RECURSIVE SortPaths(_)
SortPaths(seq) ==
    IF seq = <<>> THEN <<>>
    ELSE InsertPath(seq[Len(seq)], SortPaths(SubSeq(seq, 1, Len(seq) - 1)))

\* ------------------------------------------------------------------------
\* Paths (pathlib) and the filesystem
\* ------------------------------------------------------------------------
\* PurePosixPath(text): a leading "/" makes the path absolute; empty parts
\* and "." parts are dropped, ".." parts are kept.
PurePath(text) ==
    [abs   |-> text # <<>> /\ text[1] = "/",
     parts |-> SelectSeq(Split(text, "/"),
                         LAMBDA seg : seg # <<>> /\ seg # <<".">>)]

\* base / other
PathJoin(base, other) ==
    IF other.abs THEN other
    ELSE [abs |-> base.abs, parts |-> base.parts \o other.parts]

\* path.as_posix()
AsPosix(path) ==
    IF path.parts = <<>> THEN (IF path.abs THEN <<"/">> ELSE <<".">>)
    ELSE (IF path.abs THEN <<"/">> ELSE <<>>) \o StrJoin(<<"/">>, path.parts)

\* path.name
PathName(path) ==
    IF path.parts = <<>> THEN <<>> ELSE path.parts[Len(path.parts)]

\* path.parent
PathParent(path) ==
    IF path.parts = <<>> THEN path
    ELSE [path EXCEPT !.parts = SubSeq(path.parts, 1, Len(path.parts) - 1)]

\* path.is_relative_to(other)
IsRelativeTo(path, other) ==
    path.abs = other.abs /\ IsPrefix(other.parts, path.parts)


\* Lexical removal of ".." parts, as path.resolve() does for a path without
\* symbolic links (the parent of the root is the root).
RECURSIVE Collapse(_, _)
Collapse(done, parts) ==
    IF parts = <<>> THEN done
    ELSE IF parts[1] = <<".", ".">>
         THEN Collapse(IF done = <<>> THEN <<>>
                       ELSE SubSeq(done, 1, Len(done) - 1), Tail(parts))
         ELSE Collapse(Append(done, parts[1]), Tail(parts))

\* The working directory of the process (the tests chdir to the workspace).
Cwd == [abs |-> TRUE, parts |-> << <<"w">> >>]

\* path.resolve()
Resolve(path) ==
    [abs |-> TRUE,
     parts |-> Collapse(<<>>, IF path.abs THEN path.parts
                              ELSE Cwd.parts \o path.parts)]

\* A node of the filesystem.  The filesystem fs maps the parts of every
\* existing absolute path to its node; the root <<>> is a directory.
DirNode == [kind |-> "dir", bytes |-> <<>>, mtime |-> 0]
FileNode(bytes, mtime) == [kind |-> "file", bytes |-> bytes, mtime |-> mtime]

\* The kernel's walk of a path: every part but the last must name a
\* directory; ".." steps to the parent.  Gives the canonical parts of the
\* entry the path names, or ok = FALSE when the walk fails.
RECURSIVE Walk(_, _, _)
Walk(fs, cur, parts) ==
    IF cur \notin DOMAIN fs THEN [ok |-> FALSE, at |-> <<>>]
    ELSE IF parts = <<>> THEN [ok |-> TRUE, at |-> cur]
    ELSE IF fs[cur].kind # "dir" THEN [ok |-> FALSE, at |-> <<>>]
    ELSE IF parts[1] = <<".", ".">>
         THEN Walk(fs, IF cur = <<>> THEN <<>>
                       ELSE SubSeq(cur, 1, Len(cur) - 1), Tail(parts))
         ELSE Walk(fs, Append(cur, parts[1]), Tail(parts))

Locate(fs, path) ==
    Walk(fs, <<>>, IF path.abs THEN path.parts ELSE Cwd.parts \o path.parts)

\* path.exists(), path.is_file(), path.is_dir()
HasKind(fs, w, kind) == w.ok /\ fs[w.at].kind = kind
IsFile(fs, path) == HasKind(fs, Locate(fs, path), "file")
IsDir(fs, path) == HasKind(fs, Locate(fs, path), "dir")

\* int(path.stat().st_mtime_ns) and path.read_bytes() of an existing file
MTime(fs, path) == fs[Locate(fs, path).at].mtime
ReadBytes(fs, path) == fs[Locate(fs, path).at].bytes

\* shutil.rmtree(path): the entry and everything below it disappear.
RmTreeAt(fs, at) == [q \in {r \in DOMAIN fs : ~IsPrefix(at, r)} |-> fs[q]]

\* path.mkdir(parents=True, exist_ok=True) succeeds unless the path, or
\* one of its ancestors, exists and is not a directory.
CanMkdir(fs, parts) ==
    \A n \in 0..Len(parts) :
        SubSeq(parts, 1, n) \in DOMAIN fs => fs[SubSeq(parts, 1, n)].kind = "dir"

Mkdir(fs, parts) ==
    [q \in DOMAIN fs \cup {SubSeq(parts, 1, n) : n \in 1..Len(parts)} |->
        IF q \in DOMAIN fs THEN fs[q] ELSE DirNode]

\* Writing a regular file at a canonical path whose parent exists.
PutFile(fs, parts, node) ==
    [q \in DOMAIN fs \cup {parts} |-> IF q = parts THEN node ELSE fs[q]]

\* path.unlink() of an existing regular file
Unlink(fs, parts) == [q \in DOMAIN fs \ {parts} |-> fs[q]]

\* ------------------------------------------------------------------------
\* Globbing (glob.has_magic, fnmatch, Path.glob)
\* ------------------------------------------------------------------------
\* glob.has_magic with "]" among the characters it looks for.
HasMagicOrCloseBracket(text) ==
    \E i \in 1..Len(text) : text[i] \in {"*", "?", "[", "]"}

\* glob.has_magic(text): the regular expression [*?[] finds a match.
HasMagic(text) == \E i \in 1..Len(text) : text[i] \in {"*", "?", "["}

\* The index of the "]" that closes the character class opening at pat[1],
\* or 0 when the class is not closed (fnmatch then takes "[" literally).
ClassClose(pat) ==
    LET neg   == Len(pat) >= 2 /\ pat[2] = "!"
        first == IF neg THEN 3 ELSE 2
        from  == IF Len(pat) >= first /\ pat[first] = "]"
                 THEN first + 1 ELSE first
        ends  == {k \in from..Len(pat) : pat[k] = "]"}
    IN IF ends = {} THEN 0 ELSE CHOOSE k \in ends : \A j \in ends : k <= j

\* fnmatch.fnmatchcase(name, pat) for "*", "?" and character classes
\* without ranges.
RECURSIVE Fnmatch(_, _)
Fnmatch(pat, name) ==
    IF pat = <<>> THEN name = <<>>
    ELSE IF pat[1] = "*"
         THEN Fnmatch(Tail(pat), name)
              \/ (name # <<>> /\ Fnmatch(pat, Tail(name)))
    ELSE IF pat[1] = "?"
         THEN name # <<>> /\ Fnmatch(Tail(pat), Tail(name))
    ELSE IF pat[1] = "[" /\ ClassClose(pat) # 0
         THEN LET close   == ClassClose(pat)
                  neg     == pat[2] = "!"
                  members == Range(SubSeq(pat, IF neg THEN 3 ELSE 2, close - 1))
              IN name # <<>>
                 /\ ((name[1] \in members) # neg)
                 /\ Fnmatch(SubSeq(pat, close + 1, Len(pat)), Tail(name))
    ELSE name # <<>> /\ name[1] = pat[1] /\ Fnmatch(Tail(pat), Tail(name))

\* root.glob(pattern): the entries below root whose parts match the parts
\* of the pattern one by one, in the order in which the filesystem
\* enumerates them.  order lists the existing paths in that order.
GlobHit(fs, at, pp, r) ==
    /\ r \in DOMAIN fs
    /\ IsPrefix(at, r)
    /\ Len(r) = Len(at) + Len(pp)
    /\ \A i \in 1..Len(pp) : Fnmatch(pp[i], r[Len(at) + i])

GlobPaths(fs, root, w, pp, order) ==
    LET hits == IF HasKind(fs, w, "dir")
                THEN SelectSeq(order, LAMBDA r : GlobHit(fs, w.at, pp, r))
                ELSE <<>>
    IN [i \in 1..Len(hits) |->
          [abs   |-> root.abs,
           parts |-> root.parts \o SubSeq(hits[i], Len(w.at) + 1, Len(hits[i]))]]

PathGlob(fs, root, pattern, order) ==
    GlobPaths(fs, root, Locate(fs, root), PurePath(pattern).parts, order)

\* ------------------------------------------------------------------------
\* staging/resolution.py
\* ------------------------------------------------------------------------
NoPath == [found |-> FALSE, path |-> [abs |-> FALSE, parts |-> <<>>]]
SomePath(path) == [found |-> TRUE, path |-> path]

\* key = (int(path.stat().st_mtime_ns), path.as_posix())
MtimeKey(fs, path) == [mtime |-> MTime(fs, path), text |-> AsPosix(path)]

\* key > best_key on the modification times alone
MtimeGreater(key, best_key) == key.mtime > best_key.mtime

\* key > best_key on (int, str) tuples
KeyGreater(key, best_key) ==
    \/ key.mtime > best_key.mtime
    \/ key.mtime = best_key.mtime /\ StrLess(best_key.text, key.text)

\* The loop of _newest_file over the candidates that remain.
RECURSIVE NewestFrom(_, _, _)
NewestFrom(fs, candidates, best) ==
    IF candidates = <<>> THEN best
    ELSE LET path == candidates[1]
         IN IF ~IsFile(fs, path)
            THEN NewestFrom(fs, Tail(candidates), best)
            ELSE IF ~best.found
                    \/ KeyGreater(MtimeKey(fs, path), MtimeKey(fs, best.path))
                 THEN NewestFrom(fs, Tail(candidates), SomePath(path))
                 ELSE NewestFrom(fs, Tail(candidates), best)

_newest_file(fs, candidates) == NewestFrom(fs, candidates, NoPath)

\* PureWindowsPath(text).is_absolute() for the drive-letter form "C:\..."
\* or "C:/...".
WindowsAbsolute(text) ==
    /\ Len(text) >= 3
    /\ text[1] \in DOMAIN OrdTable
    /\ (Ord(text[1]) \in 65..90 \/ Ord(text[1]) \in 97..122)
    /\ text[2] = ":"
    /\ text[3] \in {"/", "\\"}

\* The parts of PureWindowsPath(text) after the anchor: both separators
\* split.
WindowsRelativeParts(text) ==
    LET rest   == SubSeq(text, 4, Len(text))
        pieces == Split([i \in 1..Len(rest) |->
                           IF rest[i] = "\\" THEN "/" ELSE rest[i]], "/")
    IN SelectSeq(pieces, LAMBDA seg : seg # <<>> /\ seg # <<".">>)

\* _windows_root: Path(anchor) is, on a POSIX host, the relative path whose
\* single part is the anchor "C:\".
_windows_root(rendered) ==
    [root |-> [abs |-> FALSE, parts |-> << <<rendered[1], ":", "\\">> >>],
     relative_parts |-> WindowsRelativeParts(rendered)]

FsRoot == [abs |-> TRUE, parts |-> <<>>]

RelativePattern(relative_parts) ==
    IF relative_parts # <<>> THEN StrJoin(<<"/">>, relative_parts) ELSE <<"*">>

\* The root and the pattern of the glob call _resolve_glob_pattern makes in
\* each of its three branches.
GlobCall(workspace, rendered, candidate) ==
    IF candidate.abs
    THEN [root |-> FsRoot, pattern |-> RelativePattern(candidate.parts)]
    ELSE IF WindowsAbsolute(rendered)
    THEN [root |-> _windows_root(rendered).root,
          pattern |-> RelativePattern(WindowsRelativeParts(rendered))]
    ELSE [root |-> workspace, pattern |-> rendered]

_resolve_glob_pattern(fs, workspace, rendered, candidate, order) ==
    LET call == GlobCall(workspace, rendered, candidate)
    IN _newest_file(fs, PathGlob(fs, call.root, call.pattern, order))

_resolve_direct_path(fs, workspace, rendered, candidate) ==
    LET base == IF candidate.abs THEN candidate
                ELSE IF WindowsAbsolute(rendered)
                THEN [abs |-> FALSE,
                      parts |-> _windows_root(rendered).root.parts
                                \o WindowsRelativeParts(rendered)]
                ELSE PathJoin(workspace, candidate)
    IN IF IsFile(fs, base) THEN SomePath(base) ELSE NoPath

_match_candidate_path(fs, workspace, rendered, order) ==
    IF HasMagic(rendered)
    THEN _resolve_glob_pattern(fs, workspace, rendered, PurePath(rendered), order)
    ELSE _resolve_direct_path(fs, workspace, rendered, PurePath(rendered))

\* ------------------------------------------------------------------------
\* Templates (str.format) and the configuration (config.py)
\* ------------------------------------------------------------------------
\* The index of the first "}" of text, or 0.
FirstClose(text) ==
    LET ends == {k \in 1..Len(text) : text[k] = "}"}
    IN IF ends = {} THEN 0 ELSE CHOOSE k \in ends : \A j \in ends : k <= j

\* template.format(**context): "{key}" is replaced by context[key], "{{"
\* and "}}" are the escaped braces.  err is the exception raised, or "none".
RECURSIVE FormatFrom(_, _, _)
FormatFrom(template, context, out) ==
    IF template = <<>> THEN [err |-> "none", text |-> out, key |-> <<>>]
    ELSE IF template[1] = "{"
    THEN IF Len(template) >= 2 /\ template[2] = "{"
         THEN FormatFrom(SubSeq(template, 3, Len(template)), context,
                         Append(out, "{"))
         ELSE LET close == FirstClose(template)
                  key   == SubSeq(template, 2, close - 1)
              IN IF close = 0
                 THEN [err |-> "ValueError", text |-> <<>>, key |-> <<>>]
                 ELSE IF key = <<>>
                 THEN [err |-> "IndexError", text |-> <<>>, key |-> <<>>]
                 ELSE IF key \notin DOMAIN context
                 THEN [err |-> "KeyError", text |-> <<>>, key |-> key]
                 ELSE FormatFrom(SubSeq(template, close + 1, Len(template)),
                                 context, out \o context[key])
    ELSE IF template[1] = "}"
    THEN IF Len(template) >= 2 /\ template[2] = "}"
         THEN FormatFrom(SubSeq(template, 3, Len(template)), context,
                         Append(out, "}"))
         ELSE [err |-> "ValueError", text |-> <<>>, key |-> <<>>]
    ELSE FormatFrom(Tail(template), context, Append(out, template[1]))

Format(template, context) == FormatFrom(template, context, <<>>)

\* _render_template: a KeyError becomes a StageError naming the key; any
\* other exception of str.format propagates unchanged.
_render_template(template, context) ==
    LET r == Format(template, context)
    IN IF r.err = "KeyError" THEN [r EXCEPT !.err = "StageError"] ELSE r

\* The scalar fields of the StagingConfig of the model.
Workspace == [abs |-> TRUE, parts |-> << <<"w">> >>]
BinName == <<"A">>
DistDir == <<"d">>
ChecksumAlgorithm == <<"m", "d", "5">>
Platform == <<"l">>
Arch == <<"x">>
Target == <<"g">>
BinExt == <<>>
TargetKey == <<>>
DefaultStagingDirTemplate == <<"{", "b", "i", "n", "_", "n", "a", "m", "e", "}", "_", "{", "p", "l", "a", "t", "f", "o", "r", "m", "}", "_", "{", "a", "r", "c", "h", "}">>

\* dict | dict: the right operand wins.
Merge(left, right) ==
    [k \in DOMAIN left \cup DOMAIN right |->
        IF k \in DOMAIN right THEN right[k] ELSE left[k]]

BaseContext ==
    (<<"w", "o", "r", "k", "s", "p", "a", "c", "e">> :> AsPosix(Workspace))
    @@ (<<"b", "i", "n", "_", "n", "a", "m", "e">> :> BinName)
    @@ (<<"d", "i", "s", "t", "_", "d", "i", "r">> :> DistDir)
    @@ (<<"c", "h", "e", "c", "k", "s", "u", "m", "_", "a", "l", "g", "o", "r", "i", "t", "h", "m">> :> ChecksumAlgorithm)
    @@ (<<"p", "l", "a", "t", "f", "o", "r", "m">> :> Platform)
    @@ (<<"a", "r", "c", "h">> :> Arch)
    @@ (<<"t", "a", "r", "g", "e", "t">> :> Target)
    @@ (<<"b", "i", "n", "_", "e", "x", "t">> :> BinExt)
    @@ (<<"t", "a", "r", "g", "e", "t", "_", "k", "e", "y">> :> TargetKey)

\* StagingConfig.as_template_context: str.format is called directly, so
\* whatever it raises propagates.
as_template_context(cfg) ==
    LET template_context ==
            Merge(BaseContext,
                  <<"s", "t", "a", "g", "i", "n", "g", "_", "d", "i", "r", "_", "t", "e", "m", "p", "l", "a", "t", "e">> :> cfg.staging_dir_template)
        rendered == Format(cfg.staging_dir_template, template_context)
    IN [err |-> rendered.err,
        key |-> rendered.key,
        context |-> IF rendered.err = "none"
                    THEN Merge(template_context,
                               <<"s", "t", "a", "g", "i", "n", "g", "_", "d", "i", "r", "_", "n", "a", "m", "e">> :> rendered.text)
                    ELSE template_context]

\* StagingConfig.staging_dir(), given the context as_template_context built.
staging_dir(context) ==
    PathJoin(PathJoin(Workspace, PurePath(DistDir)),
             PurePath(context[<<"s", "t", "a", "g", "i", "n", "g", "_", "d", "i", "r", "_", "n", "a", "m", "e">>]))

\* An ArtefactConfig.  An absent output or destination (None) is the empty
\* string: the pipeline tests both for truth only.
ArtefactConfig(source, required, output, destination, alternatives) ==
    [source |-> source, required |-> required, output |-> output,
     destination |-> destination, alternatives |-> alternatives]


\* ------------------------------------------------------------------------
\* staging/output.py
\* ------------------------------------------------------------------------
\* A Python dict is the sequence of its items in insertion order.
DictKeys(d) == [i \in 1..Len(d) |-> d[i].key]
DictHas(d, k) == \E i \in 1..Len(d) : d[i].key = k
DictGet(d, k) == d[CHOOSE i \in 1..Len(d) : d[i].key = k].value

\* d[k] = v: an existing key keeps its position.
DictSet(d, k, v) ==
    IF DictHas(d, k)
    THEN [i \in 1..Len(d) |->
            IF d[i].key = k THEN [key |-> k, value |-> v] ELSE d[i]]
    ELSE Append(d, [key |-> k, value |-> v])

\* left | right
RECURSIVE DictUpdate(_, _)
DictUpdate(left, right) ==
    IF right = <<>> THEN left
    ELSE DictUpdate(DictSet(left, right[1].key, right[1].value), Tail(right))

\* The items of the dict as they are, unsorted.
UnsortedItems(d) == d

\* sorted(d.items()): the keys of a dict are distinct, so the items sort by
\* key.
SortedItems(d) ==
    LET keys == SortStrs(DictKeys(d))
    IN [i \in 1..Len(keys) |-> [key |-> keys[i], value |-> DictGet(d, keys[i])]]

\* The output values: a str, or a list of str.
StrValue(text) == [list |-> FALSE, text |-> text, items |-> <<>>]
ListValue(items) == [list |-> TRUE, text |-> <<>>, items |-> items]

\* text.replace(ch, replacement) for a single character ch
RECURSIVE Replace(_, _, _)
Replace(text, ch, replacement) ==
    IF text = <<>> THEN <<>>
    ELSE (IF text[1] = ch THEN replacement ELSE <<text[1]>>)
         \o Replace(Tail(text), ch, replacement)

\* json.dumps of a str made of printable ASCII characters
JsonString(text) ==
    <<"\"">> \o Replace(Replace(text, "\\", <<"\\", "\\">>), "\"", <<"\\", "\"">>)
    \o <<"\"">>

\* json.dumps of a dict of str to str, in the order of its items
JsonDumps(d) ==
    <<"{">>
    \o StrJoin(<<",", " ">>,
               [i \in 1..Len(d) |->
                  JsonString(d[i].key) \o <<":", " ">> \o JsonString(d[i].value)])
    \o <<"}">>

\* RESERVED_OUTPUT_KEYS without the key staged_files.
ReservedWithoutStagedFiles ==
    {<<"a", "r", "t", "i", "f", "a", "c", "t", "_", "d", "i", "r">>, <<"d", "i", "s", "t", "_", "d", "i", "r">>, <<"a", "r", "t", "e", "f", "a", "c", "t", "_", "m", "a", "p">>,
     <<"c", "h", "e", "c", "k", "s", "u", "m", "_", "m", "a", "p">>}

RESERVED_OUTPUT_KEYS ==
    {<<"a", "r", "t", "i", "f", "a", "c", "t", "_", "d", "i", "r">>, <<"d", "i", "s", "t", "_", "d", "i", "r">>, <<"s", "t", "a", "g", "e", "d", "_", "f", "i", "l", "e", "s">>, <<"a", "r", "t", "e", "f", "a", "c", "t", "_", "m", "a", "p">>,
     <<"c", "h", "e", "c", "k", "s", "u", "m", "_", "m", "a", "p">>}

\* {key: path.as_posix() for key, path in items}
PosixItems(items) ==
    [i \in 1..Len(items) |->
        [key |-> items[i].key, value |-> AsPosix(items[i].value)]]

\* [path.name for path in sorted(staged_paths)]
StagedFileNames(staged_paths) ==
    LET sorted == SortPaths(staged_paths)
    IN [i \in 1..Len(sorted) |-> PathName(sorted[i])]

StrValues(exported) ==
    [i \in 1..Len(exported) |->
        [key |-> exported[i].key, value |-> StrValue(exported[i].value)]]

_prepare_output_data(stagingDir, staged_paths, outputs, checksums) ==
    LET staged_file_names == StagedFileNames(staged_paths)
        artefact_map_json == JsonDumps(PosixItems(SortedItems(outputs)))
        checksum_map_json == JsonDumps(SortedItems(checksums))
        reserved ==
            << [key |-> <<"a", "r", "t", "i", "f", "a", "c", "t", "_", "d", "i", "r">>, value |-> AsPosix(stagingDir)],
               [key |-> <<"d", "i", "s", "t", "_", "d", "i", "r">>, value |-> AsPosix(PathParent(stagingDir))],
               [key |-> <<"s", "t", "a", "g", "e", "d", "_", "f", "i", "l", "e", "s">>,
                value |-> StrJoin(<<"\n">>, staged_file_names)],
               [key |-> <<"a", "r", "t", "e", "f", "a", "c", "t", "_", "m", "a", "p">>, value |-> artefact_map_json],
               [key |-> <<"c", "h", "e", "c", "k", "s", "u", "m", "_", "m", "a", "p">>, value |-> checksum_map_json] >>
    IN StrValues(DictUpdate(reserved, PosixItems(outputs)))

\* sorted(outputs.keys() & RESERVED_OUTPUT_KEYS)
ReservedCollisions(outputs) ==
    SortStrs(SelectSeq(DictKeys(outputs), LAMBDA k : k \in RESERVED_OUTPUT_KEYS))

\* _validate_no_reserved_key_collisions raises exactly when the list of
\* collisions is not empty.
_validate_no_reserved_key_collisions(outputs) ==
    LET collisions == ReservedCollisions(outputs)
    IN IF collisions # <<>>
       THEN [err |-> "StageError", keys |-> collisions]
       ELSE [err |-> "none", keys |-> <<>>]

\* key.upper()
Upper(text) ==
    [i \in 1..Len(text) |->
        IF text[i] \in DOMAIN OrdTable /\ Ord(text[i]) \in 97..122
        THEN Ascii[Ord(text[i]) - 32 - 31] ELSE text[i]]

\* The escaping with the percent sign replaced last.
EscapePercentLast(value) ==
    Replace(Replace(Replace(value, "\r", <<"%", "0", "D">>),
                    "\n", <<"%", "0", "A">>),
            "%", <<"%", "2", "5">>)

\* value.replace("%", "%25").replace("\r", "%0D").replace("\n", "%0A")
EscapeScalar(value) ==
    Replace(Replace(Replace(value, "%", <<"%", "2", "5">>), "\r", <<"%", "0", "D">>),
            "\n", <<"%", "0", "A">>)

\* The text one item of the mapping adds to the file.
OutputRecord(key, value) ==
    IF value.list
    THEN LET delimiter == <<"g", "h", "_">> \o Upper(key)
         IN key \o <<"<", "<">> \o delimiter \o <<"\n">>
            \o StrJoin(<<"\n">>, value.items)
            \o <<"\n">> \o delimiter \o <<"\n">>
    ELSE key \o <<"=">> \o EscapeScalar(value.text) \o <<"\n">>

RECURSIVE OutputText(_)
OutputText(values) ==
    IF values = <<>> THEN <<>>
    ELSE OutputRecord(values[1].key, values[1].value) \o OutputText(Tail(values))

\* write_github_output: create the parent directories, open the file for
\* appending (creating it when missing) and write one record per item.
WriteAt(fs, parent, at, text, now) ==
    LET made == Mkdir(fs, parent)
    IN IF ~CanMkdir(fs, parent) THEN [err |-> "OSError", fs |-> fs]
       ELSE IF at \in DOMAIN made /\ made[at].kind = "dir"
       THEN [err |-> "OSError", fs |-> made]
       ELSE [err |-> "none",
             fs  |-> PutFile(made, at,
                             FileNode((IF at \in DOMAIN made
                                       THEN made[at].bytes ELSE <<>>)
                                      \o text, now))]

\* write_github_output opening the file for writing, not for appending.
WriteTruncating(fs, file, values, now) ==
    WriteAt(RmTreeAt(fs, Resolve(file).parts), Resolve(PathParent(file)).parts,
            Resolve(file).parts, OutputText(values), now)

write_github_output(fs, file, values, now) ==
    WriteAt(fs, Resolve(PathParent(file)).parts, Resolve(file).parts,
            OutputText(values), now)

\* ------------------------------------------------------------------------
\* staging/pipeline.py
\* ------------------------------------------------------------------------
\* An exception: its class, what it reports, and the data its message
\* carries (a template key or destination, the attempts, the keys).
NoError ==
    [kind |-> "none", what |-> "", text |-> <<>>, attempts |-> <<>>,
     keys |-> <<>>]

Raise(kind, what, text) ==
    [kind |-> kind, what |-> what, text |-> text, attempts |-> <<>>,
     keys |-> <<>>]

\* The exception a failed rendering raises.
RenderError(rendered) ==
    Raise(rendered.err,
          IF rendered.err = "StageError" THEN "Invalid template key"
          ELSE "str.format",
          rendered.key)

\* _initialize_staging_dir: shutil.rmtree needs a directory; mkdir fails
\* when an ancestor is a regular file.
MakeStagingDir(cleared, stagingDir, at) ==
    IF ~CanMkdir(cleared, at)
    THEN [err |-> Raise("OSError", "mkdir", AsPosix(stagingDir)), fs |-> cleared]
    ELSE [err |-> NoError, fs |-> Mkdir(cleared, at)]

ClearStagingDir(fs, stagingDir, w) ==
    IF w.ok /\ fs[w.at].kind # "dir"
    THEN [err |-> Raise("OSError", "rmtree", AsPosix(stagingDir)), fs |-> fs]
    ELSE MakeStagingDir(IF w.ok THEN RmTreeAt(fs, w.at) ELSE fs, stagingDir,
                        Resolve(stagingDir).parts)

\* _initialize_staging_dir without the removal of what is there.
InitializeWithoutClearing(fs, stagingDir) ==
    MakeStagingDir(fs, stagingDir, Resolve(stagingDir).parts)

_initialize_staging_dir(fs, stagingDir) ==
    ClearStagingDir(fs, stagingDir, Locate(fs, stagingDir))

\* The loop of _resolve_artefact_source over the patterns that remain.
RECURSIVE ResolveFrom(_, _, _, _, _, _)

\* The pattern was rendered and matched against the filesystem.
AfterMatch(fs, workspace, patterns, context, order, tried, match) ==
    IF match.found
    THEN [err |-> NoError, source |-> match, attempts |-> tried]
    ELSE ResolveFrom(fs, workspace, Tail(patterns), context, order, tried)

\* The pattern was rendered.
AfterRender(fs, workspace, patterns, context, order, attempts, rendered) ==
    IF rendered.err # "none"
    THEN [err |-> RenderError(rendered), source |-> NoPath,
          attempts |-> attempts]
    ELSE AfterMatch(fs, workspace, patterns, context, order,
                    Append(attempts, [template |-> patterns[1],
                                      rendered |-> rendered.text]),
                    _match_candidate_path(fs, workspace, rendered.text, order))

ResolveFrom(fs, workspace, patterns, context, order, attempts) ==
    IF patterns = <<>>
    THEN [err |-> NoError, source |-> NoPath, attempts |-> attempts]
    ELSE AfterRender(fs, workspace, patterns, context, order, attempts,
                     _render_template(patterns[1], context))

\* _resolve_artefact_source trying the alternatives before the source.
ResolveAlternativesFirst(fs, workspace, artefact, context, order) ==
    ResolveFrom(fs, workspace, artefact.alternatives \o <<artefact.source>>,
                context, order, <<>>)

_resolve_artefact_source(fs, workspace, artefact, context, order) ==
    ResolveFrom(fs, workspace, <<artefact.source>> \o artefact.alternatives,
                context, order, <<>>)

\* _ensure_source_available without the test of artefact.required.
EnsureIgnoringRequired(source, artefact) ==
    IF source.found THEN "staged" ELSE "skip"

\* _ensure_source_available raising for every missing artefact.
EnsureAlwaysRequired(source, artefact) ==
    IF source.found THEN "staged" ELSE "raise"

\* _ensure_source_available: "staged" when the source exists, "raise" for a
\* missing required artefact, "skip" (with a warning) for an optional one.
_ensure_source_available(source, artefact) ==
    IF source.found THEN "staged"
    ELSE IF artefact.required THEN "raise"
    ELSE "skip"

\* The warning printed on stderr for a skipped optional artefact.
SkipWarning(artefact) ==
    [title |-> "Artefact Skipped", what |-> "Optional artefact missing",
     source |-> artefact.source]

\* _safe_destination_path without the test of containment.
UncheckedTarget(fs, destination, target, staging_root, parent) ==
    IF ~CanMkdir(fs, parent)
    THEN [err |-> Raise("OSError", "mkdir", AsPosix(target)),
          fs |-> fs, path |-> target]
    ELSE [err |-> NoError, fs |-> Mkdir(fs, parent), path |-> target]

\* _safe_destination_path
CheckedTarget(fs, destination, target, staging_root, parent) ==
    IF ~IsRelativeTo(target, staging_root)
    THEN [err |-> Raise("StageError", "Destination escapes staging directory",
                        destination),
          fs |-> fs, path |-> target]
    ELSE IF ~CanMkdir(fs, parent)
    THEN [err |-> Raise("OSError", "mkdir", AsPosix(target)),
          fs |-> fs, path |-> target]
    ELSE [err |-> NoError, fs |-> Mkdir(fs, parent), path |-> target]

_safe_destination_path(fs, stagingDir, destination) ==
    LET target == Resolve(PathJoin(stagingDir, PurePath(destination)))
    IN CheckedTarget(fs, destination, target, Resolve(stagingDir),
                     PathParent(target).parts)

\* shutil.copy2(source_path, destination_path): bytes and modification time.
Copy2(fs, source_path, destination) ==
    PutFile(fs, destination.parts,
            FileNode(ReadBytes(fs, source_path), MTime(fs, source_path)))

\* The print of the two paths relative to the workspace, after the copy.
Report(copied, source_path, destination_path) ==
    [err  |-> IF ~IsRelativeTo(source_path, Workspace)
                 \/ ~IsRelativeTo(destination_path, Workspace)
              THEN Raise("ValueError", "relative_to", AsPosix(source_path))
              ELSE NoError,
     fs   |-> copied,
     path |-> destination_path]

CopyFrom(unlinked, source_path, destination_path) ==
    IF ~IsFile(unlinked, source_path)
    THEN [err |-> Raise("OSError", "copy2", AsPosix(source_path)),
          fs |-> unlinked, path |-> destination_path]
    ELSE Report(Copy2(unlinked, source_path, destination_path), source_path,
                destination_path)

\* The part of _stage_single_artefact after the destination is known:
\* unlink what is there, copy, then print the two paths relative to the
\* workspace.
CopyInto(fs, source_path, destination_path) ==
    IF destination_path.parts \notin DOMAIN fs
    THEN CopyFrom(fs, source_path, destination_path)
    ELSE IF fs[destination_path.parts].kind = "dir"
    THEN [err |-> Raise("OSError", "unlink", AsPosix(destination_path)),
          fs |-> fs, path |-> destination_path]
    ELSE CopyFrom(Unlink(fs, destination_path.parts), source_path,
                  destination_path)

\* The destination of _stage_single_artefact is known to be safe.
StageSafe(source_path, safe) ==
    IF safe.err.kind # "none" THEN safe
    ELSE CopyInto(safe.fs, source_path, safe.path)

\* The destination template of _stage_single_artefact was rendered.
StageRendered(fs, stagingDir, source_path, rendered) ==
    IF rendered.err # "none"
    THEN [err |-> RenderError(rendered), fs |-> fs, path |-> source_path]
    ELSE StageSafe(source_path,
                   _safe_destination_path(fs, stagingDir, rendered.text))

\* destination_text of _stage_single_artefact
DestinationText(artefact, artefact_context, source_path) ==
    IF artefact.destination # <<>>
    THEN _render_template(artefact.destination, artefact_context)
    ELSE [err |-> "none", text |-> PathName(source_path), key |-> <<>>]

\* artefact_context of _stage_single_artefact
ArtefactContext(context, source_path) ==
    Merge(context,
          (<<"s", "o", "u", "r", "c", "e", "_", "p", "a", "t", "h">> :> AsPosix(source_path))
          @@ (<<"s", "o", "u", "r", "c", "e", "_", "n", "a", "m", "e">> :> PathName(source_path)))

_stage_single_artefact(fs, context, stagingDir, artefact, source_path) ==
    StageRendered(fs, stagingDir, source_path,
                  DestinationText(artefact,
                                  ArtefactContext(context, source_path),
                                  source_path))

\* hashlib.new(algorithm).hexdigest() of the bytes: an injective stand-in
\* for the digest, distinct from the bytes themselves.
HexDigest(bytes) == <<"#">> \o bytes

\* The text of a checksum sidecar: "<digest>  <name>\n".
SidecarText(digest, name) == digest \o <<" ", " ">> \o name \o <<"\n">>

\* path.with_name(f"{path.name}.{algorithm}")
SidecarPath(path, algorithm) ==
    [path EXCEPT !.parts[Len(path.parts)] = PathName(path) \o <<".">> \o algorithm]

\* _write_checksum: write_text fails when the sidecar path is a directory.
WriteSidecar(fs, path, now, digest, checksum_path) ==
    IF IsDir(fs, checksum_path)
    THEN [err |-> Raise("OSError", "write_text", AsPosix(checksum_path)),
          fs |-> fs, digest |-> digest]
    ELSE [err |-> NoError,
          fs |-> PutFile(fs, checksum_path.parts,
                         FileNode(SidecarText(digest, PathName(path)), now)),
          digest |-> digest]

_write_checksum(fs, path, algorithm, now) ==
    WriteSidecar(fs, path, now, HexDigest(ReadBytes(fs, path)),
                 SidecarPath(path, algorithm))

\* What one iteration of the loop of _iter_staged_artefacts leaves: outcome
\* is "staged", "skip" or "raise".
Outcome(outcome, err, fs, path, digest, attempts) ==
    [outcome |-> outcome, err |-> err, fs |-> fs, path |-> path,
     digest |-> digest, attempts |-> attempts]

\* The checksum of the staged file was written.
AfterChecksum(single, attempts, summed) ==
    IF summed.err.kind # "none"
    THEN Outcome("raise", summed.err, summed.fs, NoPath.path, <<>>, attempts)
    ELSE Outcome("staged", NoError, summed.fs, single.path, summed.digest,
                 attempts)

\* The artefact was copied into the staging directory.
AfterStage(single, attempts, now) ==
    IF single.err.kind # "none"
    THEN Outcome("raise", single.err, single.fs, NoPath.path, <<>>, attempts)
    ELSE AfterChecksum(single, attempts,
                       _write_checksum(single.fs, single.path,
                                       ChecksumAlgorithm, now))

\* The source of the artefact was looked for.
AfterResolve(fs, context, stagingDir, artefact, now, resolved, avail) ==
    IF resolved.err.kind # "none"
    THEN Outcome("raise", resolved.err, fs, NoPath.path, <<>>,
                 resolved.attempts)
    ELSE IF avail = "raise"
    THEN Outcome("raise",
                 [Raise("StageError", "Required artefact not found",
                        AsPosix(Workspace))
                  EXCEPT !.attempts = resolved.attempts],
                 fs, NoPath.path, <<>>, resolved.attempts)
    ELSE IF avail = "skip"
    THEN Outcome("skip", NoError, fs, NoPath.path, <<>>, resolved.attempts)
    ELSE AfterStage(_stage_single_artefact(fs, context, stagingDir, artefact,
                                           resolved.source.path),
                    resolved.attempts, now)

\* One iteration of the loop of _iter_staged_artefacts: resolve, handle a
\* miss, stage, write the checksum.
IterStep(fs, context, stagingDir, artefact, order, now) ==
    LET resolved == _resolve_artefact_source(fs, Workspace, artefact, context,
                                             order)
    IN AfterResolve(fs, context, stagingDir, artefact, now, resolved,
                    _ensure_source_available(resolved.source, artefact))

\* The value stage_artefacts returns.
StageResult(stagingDir, staged, outs, sums) ==
    [staging_dir |-> stagingDir, staged_artefacts |-> staged,
     outputs |-> outs, checksums |-> sums]

\* The statements of stage_artefacts before its loop: build the context,
\* compute the staging directory and initialise it.
InitialiseAt(fs, context, dir) ==
    LET init == _initialize_staging_dir(fs, dir)
    IN [err |-> init.err, fs |-> init.fs, staging_dir |-> dir,
        context |-> context]

WithContext(fs, built) ==
    IF built.err # "none"
    THEN [err |-> Raise(built.err, "str.format", built.key), fs |-> fs,
          staging_dir |-> FsRoot, context |-> built.context]
    ELSE InitialiseAt(fs, built.context, staging_dir(built.context))

Prologue(fs, cfg) == WithContext(fs, as_template_context(cfg))

\* The body of the loop of stage_artefacts for one staged artefact.
Collect(acc, artefact, path, digest) ==
    [staged_paths |-> Append(acc.staged_paths, path),
     checksums    |-> DictSet(acc.checksums, PathName(path), digest),
     outputs      |-> IF artefact.output # <<>>
                      THEN DictSet(acc.outputs, artefact.output, path)
                      ELSE acc.outputs]

\* The GITHUB_OUTPUT file handed to stage_artefacts.
GithubOutputFile == [abs |-> TRUE, parts |-> << <<"o">>, <<"o", "u", "t">> >>]

\* The statements of stage_artefacts after its loop: the run must have
\* staged something, the outputs must avoid the reserved keys, and only
\* then is the payload written.
Written(written, exported_outputs) ==
    [err |-> IF written.err # "none"
             THEN Raise(written.err, "write_github_output",
                        AsPosix(GithubOutputFile))
             ELSE NoError,
     fs  |-> written.fs,
     values |-> exported_outputs]

\* exported_outputs of stage_artefacts
Exported(stagingDir, acc) ==
    _prepare_output_data(stagingDir, acc.staged_paths, acc.outputs,
                         acc.checksums)

\* The end of stage_artefacts with the payload written before the outcome
\* of the validation is looked at.
WriteThenValidate(fs, stagingDir, acc, now, checked) ==
    IF checked.err # "none"
    THEN [err |-> [Raise("StageError",
                         "Artefact outputs collide with reserved keys", <<>>)
                   EXCEPT !.keys = checked.keys],
          fs |-> write_github_output(fs, GithubOutputFile,
                                     Exported(stagingDir, acc), now).fs,
          values |-> Exported(stagingDir, acc)]
    ELSE Written(write_github_output(fs, GithubOutputFile,
                                     Exported(stagingDir, acc), now),
                 Exported(stagingDir, acc))

Validated(fs, stagingDir, acc, now, checked) ==
    IF checked.err # "none"
    THEN [err |-> [Raise("StageError",
                         "Artefact outputs collide with reserved keys", <<>>)
                   EXCEPT !.keys = checked.keys],
          fs |-> fs, values |-> <<>>]
    ELSE Written(write_github_output(fs, GithubOutputFile,
                                     Exported(stagingDir, acc), now),
                 Exported(stagingDir, acc))

\* The end of stage_artefacts without the test that something was staged.
EpilogueWithoutEmptyCheck(fs, stagingDir, acc, now) ==
    Validated(fs, stagingDir, acc, now,
              _validate_no_reserved_key_collisions(acc.outputs))

Epilogue(fs, stagingDir, acc, now) ==
    IF acc.staged_paths = <<>>
    THEN [err |-> Raise("StageError", "No artefacts were staged", <<>>),
          fs |-> fs, values |-> <<>>]
    ELSE Validated(fs, stagingDir, acc, now,
                   _validate_no_reserved_key_collisions(acc.outputs))

\* ------------------------------------------------------------------------
\* The inputs of the model
\* ------------------------------------------------------------------------
\* The workspace /w holds the file A, and the directory b with the files 1
\* and 2 and the directory 3.
ArtBinary ==
    ArtefactConfig(<<"{", "b", "i", "n", "_", "n", "a", "m", "e", "}">>, TRUE, <<"k">>, <<>>, <<>>)
ArtMissing ==
    ArtefactConfig(<<"M">>, TRUE, <<>>, <<>>, << <<"N">> >>)
ArtOptional ==
    ArtefactConfig(<<"M">>, FALSE, <<"d", "i", "s", "t", "_", "d", "i", "r">>, <<>>, <<>>)
ArtFallback ==
    ArtefactConfig(<<"M">>, TRUE, <<"k">>, <<>>, << <<"b", "/", "*">>, <<"{", "n", "o", "p", "e", "}">> >>)
ArtReserved ==
    ArtefactConfig(<<"b", "/", "*">>, TRUE, <<"a", "r", "t", "i", "f", "a", "c", "t", "_", "d", "i", "r">>, <<>>, <<>>)
ArtRenamed ==
    ArtefactConfig(<<"b", "/", "*">>, TRUE, <<"j">>, <<"{", "b", "i", "n", "_", "n", "a", "m", "e", "}">>, <<>>)
ArtEscape ==
    ArtefactConfig(<<"{", "b", "i", "n", "_", "n", "a", "m", "e", "}">>, TRUE, <<"j">>, <<".", ".", "/", "e">>, <<>>)
ArtAbsInside ==
    ArtefactConfig(<<"{", "b", "i", "n", "_", "n", "a", "m", "e", "}">>, TRUE, <<"s", "t", "a", "g", "e", "d", "_", "f", "i", "l", "e", "s">>,
                   <<"{", "w", "o", "r", "k", "s", "p", "a", "c", "e", "}", "/", "{", "d", "i", "s", "t", "_", "d", "i", "r", "}", "/", "{", "s", "t", "a", "g", "i", "n", "g", "_", "d", "i", "r", "_", "n", "a", "m", "e", "}", "/", "s", "/", "{", "s", "o", "u", "r", "c", "e", "_", "n", "a", "m", "e", "}">>,
                   <<>>)
ArtAbsOutside ==
    ArtefactConfig(<<"{", "b", "i", "n", "_", "n", "a", "m", "e", "}">>, TRUE, <<>>, <<"/", "e">>, <<>>)
ArtOutside ==
    ArtefactConfig(<<"/", "o", "/", "o", "u", "t">>, TRUE, <<>>, <<>>, <<>>)
ArtNested ==
    ArtefactConfig(<<"b", "/", "*">>, TRUE, <<"j">>, <<"s", "/", "{", "s", "o", "u", "r", "c", "e", "_", "n", "a", "m", "e", "}">>, <<>>)
ArtRestage ==
    ArtefactConfig(<<"d", "/", "*", "/", "*">>, FALSE, <<>>, <<"s", "/", "{", "s", "o", "u", "r", "c", "e", "_", "n", "a", "m", "e", "}">>, <<>>)

Artefacts ==
    {ArtBinary, ArtMissing, ArtOptional, ArtFallback, ArtReserved, ArtRenamed,
     ArtEscape, ArtAbsInside, ArtAbsOutside, ArtOutside, ArtNested,
     ArtRestage}

ArtefactLists ==
    UNION {[1..n -> Artefacts] : n \in 1..MaxArtefacts}

\* Descriptor lists whose templates name a key the context does not hold:
\* in the source, in an alternative that is reached, and in the
\* destination of an artefact that resolved.
UnknownKeyLists ==
    {<<ArtefactConfig(<<"{", "n", "o", "p", "e", "}">>, TRUE, <<>>, <<>>, <<>>)>>,
     <<ArtefactConfig(<<"M">>, FALSE, <<>>, <<>>, <<<<"{", "n", "o", "p", "e", "}">>>>)>>,
     <<ArtBinary, ArtefactConfig(<<"b", "/", "*">>, TRUE, <<>>, <<"{", "n", "o", "p", "e", "}">>, <<>>)>>}

\* A descriptor whose source holds "]" and none of "*", "?" and "[".
BracketList == <<ArtefactConfig(<<"c", "]">>, TRUE, <<"k">>, <<>>, <<>>)>>

\* A wildcard pattern that matches, below the dist directory, the file
\* the descriptor before it staged, with no destination of its own.
InPlaceList ==
    <<ArtBinary, ArtefactConfig(<<"d", "/", "*", "/", "A">>, TRUE, <<>>, <<>>, <<>>)>>

\* A staging_dir_template that names a key the context does not hold.
UnknownKeyStagingDirTemplate == <<"{", "n", "o", "p", "e", "}", "_", "{", "p", "l", "a", "t", "f", "o", "r", "m", "}">>

Configs ==
    {[artefacts |-> list, staging_dir_template |-> DefaultStagingDirTemplate] :
        list \in ArtefactLists \cup UnknownKeyLists
                  \cup {BracketList, InPlaceList}}
    \cup {[artefacts |-> <<ArtBinary>>,
           staging_dir_template |-> UnknownKeyStagingDirTemplate]}


\* The workspace before the first run; m1 and m2 are the modification
\* times of b/1 and b/2.  The file c] has a name that holds "]".
WorkspaceFiles(m1, m2) ==
    (<<>> :> DirNode)
    @@ (PurePath(<<"/", "w">>).parts :> DirNode)
    @@ (PurePath(<<"/", "w", "/", "A">>).parts :> FileNode(<<"x">>, 1))
    @@ (PurePath(<<"/", "w", "/", "b">>).parts :> DirNode)
    @@ (PurePath(<<"/", "w", "/", "b", "/", "1">>).parts :> FileNode(<<"y">>, m1))
    @@ (PurePath(<<"/", "w", "/", "b", "/", "2">>).parts :> FileNode(<<"z">>, m2))
    @@ (PurePath(<<"/", "w", "/", "b", "/", "3">>).parts :> DirNode)
    @@ (PurePath(<<"/", "w", "/", "c", "]">>).parts :> FileNode(<<"v">>, 1))

\* The output file, when an earlier step of the job has written to it.
EarlierOutput ==
    (PurePath(<<"/", "o">>).parts :> DirNode)
    @@ (PurePath(<<"/", "o", "/", "o", "u", "t">>).parts :> FileNode(<<"p", "=", "v", "\n">>, 1))

InitialFilesystems ==
    {WorkspaceFiles(2, 1), WorkspaceFiles(1, 1),
     WorkspaceFiles(2, 1) @@ EarlierOutput, WorkspaceFiles(1, 1) @@ EarlierOutput}

\* The time of the first run: later than every file of the workspace.
FirstNow == 3

\* sorted(paths) for a set of part sequences
RECURSIVE SortedParts(_)
SortedParts(S) ==
    IF S = {} THEN <<>>
    ELSE LET m == CHOOSE x \in S : \A y \in S \ {x} : PartsLess(x, y)
         IN <<m>> \o SortedParts(S \ {m})

Reverse(seq) == [i \in 1..Len(seq) |-> seq[Len(seq) + 1 - i]]

\* The orders in which the filesystem may enumerate its entries: the
\* pipeline is run under the ascending and the descending order.
Orders(fs) ==
    LET seq == SortedParts(DOMAIN fs)
    IN {seq, Reverse(seq)}


\* ------------------------------------------------------------------------
\* The state machine: calls of stage_artefacts, one after the other
\* ------------------------------------------------------------------------
VARIABLES
    config,        \* the StagingConfig handed to every call
    fs,            \* the filesystem
    now,           \* the clock: the modification time the next write gets
    pc,            \* "idle", "staging" (in the loop), "done" or "failed"
    idx,           \* the index of the next artefact of config.artefacts
    env,           \* _StagingEnvironment: staging_dir and context
    acc,           \* staged_paths, outputs and checksums of stage_artefacts
    attempts,      \* the attempts of the last _resolve_artefact_source
    stderr,        \* the warnings printed during the call
    skipped,       \* the indices of the artefacts the call skipped
    result,        \* what the call returned or raised
    fs0,           \* the filesystem when the call began
    now0,          \* the clock when the call began
    values,        \* the mapping the last write_github_output was given
    history        \* one summary per finished call

vars ==
    <<config, fs, now, pc, idx, env, acc, attempts, stderr, skipped, result,
      fs0, now0, values, history>>

EmptyAcc == [staged_paths |-> <<>>, outputs |-> <<>>, checksums |-> <<>>]
NoEnv == [staging_dir |-> FsRoot, context |-> BaseContext]
NoResult == StageResult(FsRoot, <<>>, <<>>, <<>>)
Pending == [status |-> "none", err |-> NoError, value |-> NoResult]
Raised(err) == [status |-> "raised", err |-> err, value |-> NoResult]
Returned(value) == [status |-> "returned", err |-> NoError, value |-> value]

\* What is below dir: the relative parts of every entry, with its kind and
\* bytes (not its modification time).
Tree(f, dir) ==
    LET at == Resolve(dir).parts
    IN [rel \in {SubSeq(q, Len(at) + 1, Len(q)) :
                    q \in {r \in DOMAIN f : IsPrefix(at, r) /\ r # at}} |->
          [kind |-> f[at \o rel].kind, bytes |-> f[at \o rel].bytes]]

\* The summary of a finished call.
Summary(res, f, dir) == [result |-> res, tree |-> Tree(f, dir)]

Init ==
    /\ config \in Configs
    /\ fs \in InitialFilesystems
    /\ now = FirstNow
    /\ pc = "idle"
    /\ idx = 0
    /\ env = NoEnv
    /\ acc = EmptyAcc
    /\ attempts = <<>>
    /\ stderr = <<>>
    /\ skipped = {}
    /\ result = Pending
    /\ fs0 = fs
    /\ now0 = now
    /\ values = <<>>
    /\ history = <<>>

\* stage_artefacts is called: lines 105-112.
Begin ==
    /\ pc \in {"idle", "done", "failed"}
    /\ Len(history) < MaxRuns
    /\ \E pro \in {Prologue(fs, config)} :
          /\ fs' = pro.fs
          /\ env' = [staging_dir |-> pro.staging_dir, context |-> pro.context]
          /\ IF pro.err.kind # "none"
             THEN /\ pc' = "failed"
                  /\ result' = Raised(pro.err)
                  /\ history' = Append(history,
                                       Summary(Raised(pro.err), pro.fs,
                                               pro.staging_dir))
             ELSE /\ pc' = "staging"
                  /\ result' = Pending
                  /\ history' = history
    /\ fs0' = fs
    /\ now0' = now
    /\ values' = <<>>
    /\ idx' = 1
    /\ acc' = EmptyAcc
    /\ attempts' = <<>>
    /\ stderr' = <<>>
    /\ skipped' = {}
    /\ UNCHANGED <<config, now>>

\* One iteration of the loop over config.artefacts: lines 194-207 and
\* 114-119.
ProcessArtefact ==
    /\ pc = "staging"
    /\ idx <= Len(config.artefacts)
    /\ \E order \in Orders(fs) :
         \E step \in {IterStep(fs, env.context, env.staging_dir,
                               config.artefacts[idx], order, now)} :
            /\ fs' = step.fs
            /\ attempts' = step.attempts
            /\ now' = IF step.fs # fs THEN now + 1 ELSE now
            /\ IF step.outcome = "raise"
               THEN /\ pc' = "failed"
                    /\ result' = Raised(step.err)
                    /\ history' = Append(history,
                                         Summary(Raised(step.err), step.fs,
                                                 env.staging_dir))
                    /\ UNCHANGED <<idx, acc, stderr, skipped>>
               ELSE IF step.outcome = "skip"
               THEN /\ stderr' = Append(stderr,
                                        SkipWarning(config.artefacts[idx]))
                    /\ skipped' = skipped \cup {idx}
                    /\ idx' = idx + 1
                    /\ UNCHANGED <<pc, result, history, acc>>
               ELSE /\ acc' = Collect(acc, config.artefacts[idx], step.path,
                                      step.digest)
                    /\ idx' = idx + 1
                    /\ UNCHANGED <<pc, result, history, stderr, skipped>>
    /\ UNCHANGED <<config, env, fs0, now0, values>>

\* What stage_artefacts returns or raises after its loop.
Outcome_of(epi, value) ==
    IF epi.err.kind # "none" THEN Raised(epi.err) ELSE Returned(value)

\* The loop is over: lines 121-131.
Finish ==
    /\ pc = "staging"
    /\ idx > Len(config.artefacts)
    /\ \E epi \in {Epilogue(fs, env.staging_dir, acc, now)} :
          /\ fs' = epi.fs
          /\ values' = epi.values
          /\ now' = IF epi.fs # fs THEN now + 1 ELSE now
          /\ pc' = IF epi.err.kind # "none" THEN "failed" ELSE "done"
          /\ \E res \in {Outcome_of(epi,
                                    StageResult(env.staging_dir,
                                                acc.staged_paths, acc.outputs,
                                                acc.checksums))} :
                /\ result' = res
                /\ history' = Append(history,
                                     Summary(res, epi.fs, env.staging_dir))
    /\ UNCHANGED <<config, idx, env, acc, attempts, stderr, skipped, fs0,
                   now0>>

Next == Begin \/ ProcessArtefact \/ Finish

Spec == Init /\ [][Next]_vars


\* ------------------------------------------------------------------------
\* The properties of the pipeline
\* ------------------------------------------------------------------------
\* What the output sink holds in the filesystem f.
SinkOf(f) ==
    IF GithubOutputFile.parts \in DOMAIN f
    THEN [exists |-> TRUE, bytes |-> f[GithubOutputFile.parts].bytes]
    ELSE [exists |-> FALSE, bytes |-> <<>>]

\* The call is in its loop, about to process the descriptor at idx.
AtDescriptor == pc = "staging" /\ idx <= Len(config.artefacts)

NothingFound(resolved) == resolved.err.kind = "none" /\ ~resolved.source.found

\* Neither the source of the artefact nor any of its alternatives resolves
\* in the filesystem f, whatever the order of enumeration.
Unresolvable(f, artefact, context) ==
    \A order \in Orders(f) :
        NothingFound(_resolve_artefact_source(f, Workspace, artefact, context,
                                              order))

\* C1: until stage_artefacts has returned, the output file holds exactly
\* what it held when the call began (and does not exist if it did not):
\* nothing is written while the descriptors are processed and the checks
\* run, and so a call that raises has written nothing.
FailedRunWritesNothing == pc # "done" => SinkOf(fs) = SinkOf(fs0)

\* A call raised on the reserved-key check, with records of an earlier
\* step of the job in the output file.
FailedOnCollisionWithEarlierOutput ==
    /\ pc = "failed"
    /\ result.err.what = "Artefact outputs collide with reserved keys"
    /\ SinkOf(fs0).exists

\* The descriptor at idx is required and nothing resolves for it.
RequiredMissing ==
    /\ AtDescriptor
    /\ config.artefacts[idx].required
    /\ Unresolvable(fs, config.artefacts[idx], env.context)

\* C2, as the specification states it: when nothing resolves for a
\* required descriptor, stage_artefacts raises StageError, the staging
\* directory holds no staged artefact or sidecar and the output sink is
\* unchanged.
RequiredMissingLeavesNothingStaged ==
    [][RequiredMissing =>
          /\ pc' = "failed"
          /\ result'.err.kind = "StageError"
          /\ DOMAIN Tree(fs', env.staging_dir) = {}
          /\ SinkOf(fs') = SinkOf(fs0)]_vars

\* C2, amended: when nothing resolves for a required descriptor,
\* stage_artefacts raises StageError and the call ends there: that step
\* stages nothing and writes nothing (the filesystem is as it was before
\* the descriptor was processed, so what earlier descriptors staged stays
\* in the staging directory), and the output sink is unchanged.
RequiredMissingAbortsRun ==
    [][RequiredMissing =>
          /\ pc' = "failed"
          /\ result'.err.kind = "StageError"
          /\ result'.err.what = "Required artefact not found"
          /\ fs' = fs
          /\ acc' = acc
          /\ SinkOf(fs') = SinkOf(fs0)]_vars

\* A required descriptor was missing after another one had been staged.
RequiredMissingAfterStaged ==
    /\ pc = "failed"
    /\ result.err.what = "Required artefact not found"
    /\ acc.staged_paths # <<>>


\* The descriptor at idx is optional and nothing resolves for it.
OptionalMissing ==
    /\ AtDescriptor
    /\ ~config.artefacts[idx].required
    /\ Unresolvable(fs, config.artefacts[idx], env.context)

\* The indices 1..n that are not in skip, in order.
KeptIndices(n, skip) == SelectSeq([i \in 1..n |-> i], LAMBDA i : i \notin skip)

Pick(list, indices) == [k \in 1..Len(indices) |-> list[indices[k]]]

\* The loop of stage_artefacts over a list of descriptors that all stage:
\* the filesystem, the clock and the collected paths, outputs and
\* checksums it ends with.
RECURSIVE StageAll(_, _, _, _, _, _)

StageNext(f, context, dir, list, clock, sofar, step) ==
    IF step.outcome # "staged"
    THEN [ok |-> FALSE, fs |-> step.fs, now |-> clock, acc |-> sofar]
    ELSE StageAll(step.fs, context, dir, Tail(list),
                  IF step.fs # f THEN clock + 1 ELSE clock,
                  Collect(sofar, list[1], step.path, step.digest))

StageAll(f, context, dir, list, clock, sofar) ==
    IF list = <<>>
    THEN [ok |-> TRUE, fs |-> f, now |-> clock, acc |-> sofar]
    ELSE StageNext(f, context, dir, list, clock, sofar,
                   IterStep(f, context, dir, list[1], SortedParts(DOMAIN f),
                            clock))

\* The call, had it been made with the descriptors of list only.
CallWith(list) ==
    StageAll(Prologue(fs0, config).fs, env.context, env.staging_dir, list,
             now0, EmptyAcc)

\* The call has processed the descriptors before next and skipped those
\* at the indices of skip: it stands at (f, clock, sofar), where it would
\* stand had the skipped descriptors not been in the list.
StagedAsWithout(skip, next, f, clock, sofar) ==
    CallWith(Pick(config.artefacts, KeptIndices(next - 1, skip)))
        = [ok |-> TRUE, fs |-> f, now |-> clock, acc |-> sofar]

Patterns(artefact) == <<artefact.source>> \o artefact.alternatives

Renders(pattern, context) == Format(pattern, context).err = "none"

Pair(pattern, context) ==
    [template |-> pattern, rendered |-> Format(pattern, context).text]

PairsTo(patterns, context, n) ==
    [i \in 1..n |-> Pair(patterns[i], context)]

\* The resolver goes no further than this pattern: it does not render, or
\* it resolves to a file.
Stops(f, pattern, context, order) ==
    \/ ~Renders(pattern, context)
    \/ _match_candidate_path(f, Workspace, Format(pattern, context).text,
                             order).found

\* The index of the first pattern the resolver goes no further than, or
\* one more than the number of patterns.
StopAt(f, patterns, context, order) ==
    IF \E i \in 1..Len(patterns) : Stops(f, patterns[i], context, order)
    THEN CHOOSE i \in 1..Len(patterns) :
            /\ Stops(f, patterns[i], context, order)
            /\ \A j \in 1..(i - 1) : ~Stops(f, patterns[j], context, order)
    ELSE Len(patterns) + 1

\* What the step that processes artefact leaves when the resolver goes no
\* further than the pattern at k.
TriedUpTo(artefact, patterns, context, k) ==
    IF k > Len(patterns)
    THEN /\ attempts' = PairsTo(patterns, context, Len(patterns))
         /\ artefact.required =>
               /\ pc' = "failed"
               /\ result'.err =
                     [kind |-> "StageError",
                      what |-> "Required artefact not found",
                      text |-> AsPosix(Workspace),
                      attempts |-> PairsTo(patterns, context, Len(patterns)),
                      keys |-> <<>>]
    ELSE IF ~Renders(patterns[k], context)
    THEN /\ attempts' = PairsTo(patterns, context, k - 1)
         /\ pc' = "failed"
    ELSE /\ attempts' = PairsTo(patterns, context, k)
         /\ ~(pc' = "failed" /\ result'.err.what = "Required artefact not found")
         /\ ~(/\ pc' = "failed"
              /\ result'.err.what = "Invalid template key"
              /\ \E j \in (k + 1)..Len(patterns) :
                    /\ ~Renders(patterns[j], context)
                    /\ Format(patterns[j], context).key = result'.err.text)

\* C4: for each descriptor the resolver tries the source and then the
\* alternatives in the order they are declared and stops at the first
\* that resolves: the attempts are the (template, rendered) pairs of the
\* patterns up to that one, in order, and no later pattern is rendered;
\* when nothing resolves for a required descriptor, the StageError carries
\* the workspace path and the pairs of the source and of every
\* alternative.
SourcesTriedInOrder ==
    [][AtDescriptor =>
          \E order \in Orders(fs) :
              TriedUpTo(config.artefacts[idx],
                        Patterns(config.artefacts[idx]), env.context,
                        StopAt(fs, Patterns(config.artefacts[idx]),
                               env.context, order))]_vars

\* The descriptor whose source is missing, whose first alternative
\* resolves and whose second alternative cannot be rendered was staged.
FallbackStaged ==
    /\ pc = "staging"
    /\ idx = 2
    /\ config.artefacts[1] = ArtFallback
    /\ Len(attempts) = 2
    /\ Len(acc.staged_paths) = 1

\* The wildcard patterns the resolver is asked about.
WildcardPatterns == {<<"b", "/", "*">>, <<"d", "/", "*", "/", "*">>, <<"/", "w", "/", "b", "/", "?">>}

\* The paths the glob of a wildcard pattern yields in the filesystem f.
Candidates(f, call, order) ==
    Range(PathGlob(f, call.root, call.pattern, order))

\* c is the newer of the two files: the greater modification time, or
\* the same modification time and the greater path string.
Newer(f, c, d) ==
    \/ MTime(f, c) > MTime(f, d)
    \/ MTime(f, c) = MTime(f, d) /\ StrLess(AsPosix(d), AsPosix(c))

\* The newest of a set of regular files, when there is one.
Newest(f, files) ==
    IF files = {} THEN NoPath
    ELSE SomePath(CHOOSE c \in files : \A d \in files \ {c} : Newer(f, c, d))

RegularFiles(f, paths) == {c \in paths : IsFile(f, c)}

\* C5: for a wildcard pattern the resolver leaves aside the matches that
\* are not regular files, finds nothing when none remains, and otherwise
\* returns the match with the greatest modification time, the greatest
\* path string among those of that time, in whichever order the
\* filesystem enumerates its entries.
NewestMatchIsChosen ==
    \A pattern \in WildcardPatterns :
        \A order \in Orders(fs) :
            _match_candidate_path(fs, Workspace, pattern, order)
                = Newest(fs, RegularFiles(fs,
                                 Candidates(fs,
                                            GlobCall(Workspace, pattern,
                                                     PurePath(pattern)),
                                            order)))

\* The wildcard b/* was resolved between two files of the same
\* modification time, and the file with the greater path was staged.
TieBrokenByPath ==
    /\ pc = "staging"
    /\ idx = 2
    /\ config.artefacts[1] = ArtReserved
    /\ MTime(fs, PurePath(<<"/", "w", "/", "b", "/", "1">>)) = MTime(fs, PurePath(<<"/", "w", "/", "b", "/", "2">>))
    /\ PathName(acc.staged_paths[1]) = <<"2">>


\* The destination text of the descriptor, once its source is resolved;
\* err is "unresolved" when the resolver raised or found nothing.
DestinationFor(context, artefact, resolved) ==
    IF NothingFound(resolved) \/ resolved.err.kind # "none"
    THEN [err |-> "unresolved", text |-> <<>>, key |-> <<>>]
    ELSE DestinationText(artefact,
                         ArtefactContext(context, resolved.source.path),
                         resolved.source.path)

DestinationAt(order) ==
    DestinationFor(env.context, config.artefacts[idx],
                   _resolve_artefact_source(fs, Workspace,
                                            config.artefacts[idx],
                                            env.context, order))

\* The destination text resolves to a path outside the staging directory.
Escapes(dir, text) ==
    ~IsRelativeTo(Resolve(PathJoin(dir, PurePath(text))), Resolve(dir))

\* The destination text is an absolute path.
IsAbsolute(text) == PurePath(text).abs

\* The step raised on the destination and touched nothing: no copy, no
\* sidecar, no directory.
RejectedUntouched ==
    /\ pc' = "failed"
    /\ result'.err.kind = "StageError"
    /\ result'.err.what = "Destination escapes staging directory"
    /\ fs' = fs
    /\ acc' = acc

EscapingOrAbsolute(dir, rendered) ==
    /\ rendered.err = "none"
    /\ Escapes(dir, rendered.text) \/ IsAbsolute(rendered.text)

EscapingOnly(dir, rendered) ==
    rendered.err = "none" /\ Escapes(dir, rendered.text)

\* C6, as the specification states it: a destination that renders to a
\* path resolving outside the staging directory, or to an absolute path,
\* is rejected with StageError before anything is copied, written or
\* created.
EscapingOrAbsoluteDestinationRejected ==
    [][AtDescriptor =>
          \A order \in Orders(fs) :
              EscapingOrAbsolute(env.staging_dir, DestinationAt(order))
                  => RejectedUntouched]_vars

\* C6, amended: a destination that renders to a path resolving outside
\* the staging directory (through .. segments, or an absolute path that
\* is not inside the staging directory) is rejected with StageError before
\* anything is copied, written or created.
EscapingDestinationRejected ==
    [][AtDescriptor =>
          \A order \in Orders(fs) :
              EscapingOnly(env.staging_dir, DestinationAt(order))
                  => RejectedUntouched]_vars

\* The destination ../e was rejected and the staging directory is empty.
EscapeRejected ==
    /\ pc = "failed"
    /\ result.err.what = "Destination escapes staging directory"
    /\ result.err.text = <<".", ".", "/", "e">>
    /\ DOMAIN Tree(fs, env.staging_dir) = {}

\* The output keys that two descriptors of the list declare.
DuplicatedOutputs(list) ==
    {list[i].output : i \in {k \in 1..Len(list) :
        /\ list[k].output # <<>>
        /\ \E j \in 1..Len(list) : j # k /\ list[j].output = list[k].output}}

\* The destination paths that two of the staged descriptors rendered.
DuplicatedDestinations(staged_paths) ==
    {staged_paths[i] : i \in {k \in 1..Len(staged_paths) :
        \E j \in 1..Len(staged_paths) :
            j # k /\ staged_paths[j] = staged_paths[k]}}

\* C7: a call for a configuration in which two descriptors declare the
\* same output key raises (a StageError naming the key): it does not
\* return, and no output record is written.  The case stated is the one
\* in which the descriptors are staged to different destinations, so
\* that nothing else is wrong with the configuration.
DuplicateOutputKeyRejected ==
    (/\ DuplicatedOutputs(config.artefacts) # {}
     /\ DuplicatedDestinations(acc.staged_paths) = {}) =>
        pc # "done" /\ SinkOf(fs) = SinkOf(fs0)

\* C8: a call in which two descriptors render the same destination path
\* inside the staging directory raises (a StageError naming the
\* destination): it does not return, and no output record is written.
\* The case stated is the one in which the output keys of the descriptors
\* differ, so that nothing else is wrong with the configuration.
DuplicateDestinationRejected ==
    (/\ DuplicatedDestinations(acc.staged_paths) # {}
     /\ DuplicatedOutputs(config.artefacts) = {}) =>
        pc # "done" /\ SinkOf(fs) = SinkOf(fs0)

\* The five reserved keys.
ReservedKeys ==
    {<<"a", "r", "t", "i", "f", "a", "c", "t", "_", "d", "i", "r">>, <<"d", "i", "s", "t", "_", "d", "i", "r">>, <<"s", "t", "a", "g", "e", "d", "_", "f", "i", "l", "e", "s">>, <<"a", "r", "t", "e", "f", "a", "c", "t", "_", "m", "a", "p">>,
     <<"c", "h", "e", "c", "k", "s", "u", "m", "_", "m", "a", "p">>}

\* The reserved keys the descriptors of the list declare as their output.
DeclaredReserved(list) ==
    {list[i].output : i \in 1..Len(list)} \cap ReservedKeys

\* C9, as the specification states it: a call for a configuration in
\* which a descriptor declares a reserved output key raises (a StageError
\* listing the key): it does not return, and nothing is written to the
\* output sink.
ReservedOutputKeyRejected ==
    DeclaredReserved(config.artefacts) # {} =>
        pc # "done" /\ SinkOf(fs) = SinkOf(fs0)

\* Every descriptor was processed; the next step validates the outputs.
AtValidation == pc = "staging" /\ idx > Len(config.artefacts)

\* The reserved keys that the staged descriptors declare.
StagedReserved ==
    DeclaredReserved(Pick(config.artefacts,
                          KeptIndices(Len(config.artefacts), skipped)))

\* C9, amended: when every descriptor has been processed and one that
\* was staged declares a reserved output key, stage_artefacts raises a
\* StageError listing the reserved keys the staged descriptors declare,
\* and nothing is written: the filesystem and the output sink are
\* unchanged.
ReservedKeyOfStagedRejected ==
    [][(AtValidation /\ StagedReserved # {}) =>
          /\ pc' = "failed"
          /\ result'.err.kind = "StageError"
          /\ result'.err.what = "Artefact outputs collide with reserved keys"
          /\ Range(result'.err.keys) = StagedReserved
          /\ fs' = fs
          /\ SinkOf(fs') = SinkOf(fs0)]_vars

\* A call raised with two reserved keys listed.
TwoReservedKeysListed ==
    /\ pc = "failed"
    /\ result.err.keys = << <<"a", "r", "t", "i", "f", "a", "c", "t", "_", "d", "i", "r">>, <<"s", "t", "a", "g", "e", "d", "_", "f", "i", "l", "e", "s">> >>

\* C10: a call that follows a call that returned, with the same
\* configuration and the sources untouched, returns too, with an equal
\* StageResult, and leaves in the staging directory the same entries with
\* the same bytes.
StagingIsIdempotent ==
    \A i \in 1..(Len(history) - 1) :
        history[i].result.status = "returned" => history[i + 1] = history[i]

\* Two calls returned, each with two artefacts staged.
ReturnedTwice ==
    /\ Len(history) = 2
    /\ history[1].result.status = "returned"
    /\ history[2].result.status = "returned"
    /\ Len(history[2].result.value.staged_artefacts) = 2

\* What is at or below the staging directory: the regular files, and the
\* directories other than the staging directory itself.
StagingRoot == Resolve(env.staging_dir).parts
FilesBelow(f, root) == {q \in DOMAIN f : IsPrefix(root, q) /\ f[q].kind = "file"}
DirsBelow(f, root) ==
    {q \in DOMAIN f : IsPrefix(root, q) /\ q # root /\ f[q].kind = "dir"}

\* The paths of the staged files, and of their checksum sidecars.
Destinations(staged) == {staged[i].parts : i \in 1..Len(staged)}
Sidecars(staged) ==
    {SidecarPath(staged[i], ChecksumAlgorithm).parts : i \in 1..Len(staged)}

\* C11: when stage_artefacts has returned, the regular files below the
\* staging directory are the staged files and their sidecars
\* <name>.<algorithm>, one file and one sidecar for each staged artefact
\* (as many files, and as many sidecars, as artefacts were staged), and
\* every directory below it leads to one of them: nothing else is there.
StagingDirHoldsExactlyTheStaged ==
    pc = "done" =>
        /\ FilesBelow(fs, StagingRoot)
             = Destinations(result.value.staged_artefacts)
               \cup Sidecars(result.value.staged_artefacts)
        /\ Cardinality(Destinations(result.value.staged_artefacts))
             = Len(result.value.staged_artefacts)
        /\ Cardinality(Sidecars(result.value.staged_artefacts))
             = Len(result.value.staged_artefacts)
        /\ Destinations(result.value.staged_artefacts)
             \cap Sidecars(result.value.staged_artefacts) = {}
        /\ \A d \in DirsBelow(fs, StagingRoot) :
              \E q \in FilesBelow(fs, StagingRoot) : IsPrefix(d, q)

\* C12: when every descriptor has been processed and nothing was staged,
\* stage_artefacts raises the StageError "No artefacts were staged" and
\* writes nothing to the output sink; a call that returns has staged
\* something.
NothingStagedFails ==
    [][/\ (AtValidation /\ acc.staged_paths = <<>>) =>
             /\ pc' = "failed"
             /\ result'.status = "raised"
             /\ result'.err.kind = "StageError"
             /\ result'.err.what = "No artefacts were staged"
             /\ SinkOf(fs') = SinkOf(fs0)
       /\ pc' = "done" => result'.value.staged_artefacts # <<>>]_vars

\* A call raised because both of its descriptors, optional, were skipped.
FailedWithEverythingSkipped ==
    /\ pc = "failed"
    /\ result.err.what = "No artefacts were staged"
    /\ Len(config.artefacts) = 2
    /\ skipped = {1, 2}


\* C13: whatever stage_artefacts raises is a StageError.
OnlyStageErrorRaised ==
    result.status = "raised" => result.err.kind = "StageError"


\* ------------------------------------------------------------------------
\* tests_python/stage_test_helpers.py: the reader of the output file
\* ------------------------------------------------------------------------
\* The index at which pat first occurs in text, or 0 (pat in text,
\* text.split(pat, 1)).
FindStr(text, pat) ==
    LET hits == {i \in 1..(Len(text) - Len(pat) + 1) :
                    SubSeq(text, i, i + Len(pat) - 1) = pat}
    IN IF hits = {} THEN 0 ELSE CHOOSE i \in hits : \A j \in hits : i <= j

\* text.replace(old, new) for a non-empty old
RECURSIVE ReplaceStr(_, _, _)
ReplaceStr(text, old, new) ==
    IF text = <<>> THEN <<>>
    ELSE IF IsPrefix(old, text)
    THEN new \o ReplaceStr(SubSeq(text, Len(old) + 1, Len(text)), old, new)
    ELSE <<text[1]>> \o ReplaceStr(Tail(text), old, new)

\* text.splitlines() for the line boundaries "\n", "\r" and "\r\n": the
\* lines lie between the positions at which a line ends.
SplitLines(text) ==
    LET ends == {i \in 1..Len(text) :
                    \/ text[i] = "\n"
                    \/ text[i] = "\r" /\ ~(i < Len(text) /\ text[i + 1] = "\n")}
        nth(n) == CHOOSE e \in ends : Cardinality({x \in ends : x <= e}) = n
        start(n) == IF n = 1 THEN 1 ELSE nth(n - 1) + 1
        stop(n) == IF n > Cardinality(ends) THEN Len(text)
                   ELSE IF nth(n) > start(n) /\ text[nth(n)] = "\n"
                           /\ text[nth(n) - 1] = "\r"
                   THEN nth(n) - 2
                   ELSE nth(n) - 1
        count == IF start(Cardinality(ends) + 1) <= Len(text)
                 THEN Cardinality(ends) + 1 ELSE Cardinality(ends)
    IN [n \in 1..count |-> SubSeq(text, start(n), stop(n))]

\* The loop of decode_output_file from the line at index on.
RECURSIVE DecodeFrom(_, _, _)
DecodeFrom(lines, index, decoded) ==
    IF index > Len(lines) THEN decoded
    ELSE LET line  == lines[index]
             open  == FindStr(line, <<"<", "<">>)
             eq    == FindStr(line, <<"=">>)
             ends  == {j \in (index + 1)..Len(lines) :
                          lines[j] = SubSeq(line, open + 2, Len(line))}
             stop  == IF ends = {} THEN Len(lines) + 1
                      ELSE CHOOSE j \in ends : \A k \in ends : j <= k
         IN IF open # 0
            THEN DecodeFrom(lines, stop + 1,
                            DictSet(decoded, SubSeq(line, 1, open - 1),
                                    StrJoin(<<"\n">>,
                                            SubSeq(lines, index + 1, stop - 1))))
            ELSE IF eq # 0
            THEN DecodeFrom(lines, index + 1,
                            DictSet(decoded, SubSeq(line, 1, eq - 1),
                                    ReplaceStr(
                                        ReplaceStr(
                                            ReplaceStr(
                                                SubSeq(line, eq + 1, Len(line)),
                                                <<"%", "0", "A">>, <<"\n">>),
                                            <<"%", "0", "D">>, <<"\r">>),
                                        <<"%", "2", "5">>, <<"%">>)))
            ELSE DecodeFrom(lines, index + 1, decoded)

decode_output_file(text) == DecodeFrom(SplitLines(text), 1, <<>>)

\* ------------------------------------------------------------------------
\* write_github_output called on its own
\* ------------------------------------------------------------------------
MaxScalarLen == 3
MaxLines == 2
MaxWrites == 2

\* The strings of at most n characters (or the lists of at most n items)
\* over S.
Strings(S, n) == UNION {[1..k -> S] : k \in 0..n}

\* The mappings the writer is called with: one scalar over the characters
\* the escaping is about; one list, of lines of which one is the delimiter
\* of its key; and two keys in either order of insertion.
Mappings ==
    {<< [key |-> <<"a">>, value |-> StrValue(s)] >> :
        s \in Strings({"%", "\r", "\n", "2", "5", "0", "A", "D"}, MaxScalarLen)}
    \cup
    {<< [key |-> <<"a">>, value |-> ListValue(items)] >> :
        items \in Strings({<<>>, <<"x">>, <<"g", "h", "_", "A">>}, MaxLines)}
    \cup
    {<< [key |-> ks[1], value |-> v], [key |-> ks[2], value |-> w] >> :
        ks \in {<< <<"a">>, <<"b">> >>, << <<"b">>, <<"a">> >>},
        v \in {StrValue(<<>>), ListValue(<<>>)},
        w \in {StrValue(<<"x">>), ListValue(<< <<"x">> >>)}}

WriterInit ==
    /\ config = [artefacts |-> <<>>,
                 staging_dir_template |-> DefaultStagingDirTemplate]
    /\ fs \in {WorkspaceFiles(1, 1), WorkspaceFiles(1, 1) @@ EarlierOutput}
    /\ now = FirstNow
    /\ pc = "writer"
    /\ idx = 0
    /\ env = NoEnv
    /\ acc = EmptyAcc
    /\ attempts = <<>>
    /\ stderr = <<>>
    /\ skipped = {}
    /\ result = Pending
    /\ fs0 = fs
    /\ now0 = now
    /\ values \in Mappings
    /\ history = <<>>

\* write_github_output(file, values) is called; idx counts the calls, fs0
\* is the filesystem when the last call began.
WriteOutput ==
    /\ pc = "writer"
    /\ idx < MaxWrites
    /\ \E written \in {write_github_output(fs, GithubOutputFile, values, now)} :
          /\ fs' = written.fs
          /\ pc' = IF written.err # "none" THEN "failed" ELSE "writer"
    /\ fs0' = fs
    /\ now0' = now
    /\ now' = now + 1
    /\ idx' = idx + 1
    /\ UNCHANGED <<config, env, acc, attempts, stderr, skipped, result, values,
                   history>>

WriterSpec == WriterInit /\ [][WriteOutput]_vars


\* What the last call of the writer added to the output file.
Appended ==
    SubSeq(SinkOf(fs).bytes, Len(SinkOf(fs0).bytes) + 1, Len(SinkOf(fs).bytes))

\* The writer was called with one scalar value.
ScalarWritten ==
    pc = "writer" /\ idx >= 1 /\ Len(values) = 1 /\ ~values[1].value.list

\* C14: after write_github_output wrote the scalar s under a key, reading
\* the file back (%0A to LF, %0D to CR, then %25 to %) gives s for the key,
\* and what was written is one line, key=escaped, whose escaped value
\* holds no carriage return and no line feed.
EscapingRoundTrips ==
    ScalarWritten =>
        /\ DictHas(decode_output_file(SinkOf(fs).bytes), values[1].key)
        /\ DictGet(decode_output_file(SinkOf(fs).bytes), values[1].key)
             = values[1].value.text
        /\ IsPrefix(values[1].key \o <<"=">>, Appended)
        /\ Appended[Len(Appended)] = "\n"
        /\ \A i \in 1..(Len(Appended) - 1) : Appended[i] \notin {"\r", "\n"}

\* The scalar written is the text of an escape sequence, "%0A", and
\* another one holds a percent sign, a carriage return and a line feed.
EscapeTextWritten ==
    /\ ScalarWritten
    /\ values[1].value.text \in {<<"%", "0", "A">>, <<"%", "\r", "\n">>}
    /\ idx = 2


\* C15: a call of write_github_output leaves in the output file what was
\* there, followed by the records of the mapping it was given, and leaves
\* every other entry of the filesystem as it was; so the records of any
\* number of calls follow one another, none truncated, overwritten or
\* moved.
WriterOnlyAppends ==
    [][pc = "writer" =>
          /\ SinkOf(fs').exists
          /\ SinkOf(fs').bytes = SinkOf(fs).bytes \o OutputText(values)
          /\ IsPrefix(SinkOf(fs).bytes, SinkOf(fs').bytes)
          /\ \A q \in DOMAIN fs \ {GithubOutputFile.parts} :
                q \in DOMAIN fs' /\ fs'[q] = fs[q]]_vars

\* Two calls in a row wrote two records each after the records of an
\* earlier step.
TwoCallsAfterEarlierOutput ==
    /\ pc = "writer"
    /\ idx = 2
    /\ Len(values) = 2
    /\ SinkOf(fs).bytes
         = <<"p", "=", "v", "\n">> \o OutputText(values) \o OutputText(values)


\* The writer was called with one list value.
ListWritten ==
    pc = "writer" /\ idx >= 1 /\ Len(values) = 1 /\ values[1].value.list

\* C16: after write_github_output wrote a list under a key, the file ends
\* with the block key<<DELIM, the lines, DELIM, where DELIM is gh_ and the
\* key in upper case, and reading the block back up to the first line equal
\* to DELIM gives the lines of the list joined by newlines.
ListBlockRoundTrips ==
    ListWritten =>
        /\ IsPrefix(values[1].key \o <<"<", "<", "g", "h", "_">> \o Upper(values[1].key)
                    \o <<"\n">>, Appended)
        /\ DictHas(decode_output_file(SinkOf(fs).bytes), values[1].key)
        /\ DictGet(decode_output_file(SinkOf(fs).bytes), values[1].key)
             = StrJoin(<<"\n">>, values[1].value.items)


\* C20: the records a call of write_github_output adds to the file are in
\* ascending order of their keys, whatever the order in which the mapping
\* holds them.
RecordsInSortedKeyOrder ==
    (pc = "writer" /\ idx >= 1 /\ Len(values) = 2) =>
        DictKeys(decode_output_file(Appended)) = SortStrs(DictKeys(values))


\* The records the call appended to the output file, read back.
Payload == decode_output_file(Appended)

\* The keys of a JSON object of strings none of which holds a quote, in
\* the order in which its text holds them.
JsonKeys(text) ==
    [i \in 1..(Len(Split(text, "\"")) \div 4) |-> Split(text, "\"")[4 * i - 2]]

\* The list of strings is in strictly ascending order.
Ascending(keys) ==
    \A i \in 1..Len(keys) : \A j \in (i + 1)..Len(keys) : StrLess(keys[i], keys[j])

\* C17: when stage_artefacts has returned, the keys of the artefact_map
\* object it wrote are the output keys of the result in ascending order,
\* and the keys of the checksum_map object are the file names of the
\* result in ascending order.
MapKeysSorted ==
    pc = "done" =>
        /\ DictHas(Payload, <<"a", "r", "t", "e", "f", "a", "c", "t", "_", "m", "a", "p">>)
        /\ DictHas(Payload, <<"c", "h", "e", "c", "k", "s", "u", "m", "_", "m", "a", "p">>)
        /\ Ascending(JsonKeys(DictGet(Payload, <<"a", "r", "t", "e", "f", "a", "c", "t", "_", "m", "a", "p">>)))
        /\ Range(JsonKeys(DictGet(Payload, <<"a", "r", "t", "e", "f", "a", "c", "t", "_", "m", "a", "p">>)))
             = Range(DictKeys(result.value.outputs))
        /\ Ascending(JsonKeys(DictGet(Payload, <<"c", "h", "e", "c", "k", "s", "u", "m", "_", "m", "a", "p">>)))
        /\ Range(JsonKeys(DictGet(Payload, <<"c", "h", "e", "c", "k", "s", "u", "m", "_", "m", "a", "p">>)))
             = Range(DictKeys(result.value.checksums))

\* A call returned whose descriptors declare the outputs k and j, in this
\* order, and stage the files A and 1 or 2, in this order.
ReturnedWithUnsortedDeclarations ==
    /\ pc = "done"
    /\ DictKeys(result.value.outputs) = << <<"k">>, <<"j">> >>
    /\ DictKeys(result.value.checksums) \in {<< <<"A">>, <<"1">> >>,
                                             << <<"A">>, <<"2">> >>}

\* C18: when stage_artefacts has returned, the staged_files record it
\* wrote is the base names of the staged files, in ascending order of the
\* names, joined by newlines.
StagedFilesSortedByName ==
    pc = "done" =>
        /\ DictHas(Payload, <<"s", "t", "a", "g", "e", "d", "_", "f", "i", "l", "e", "s">>)
        /\ DictGet(Payload, <<"s", "t", "a", "g", "e", "d", "_", "f", "i", "l", "e", "s">>)
             = StrJoin(<<"\n">>,
                       SortStrs([i \in 1..Len(result.value.staged_artefacts) |->
                                   PathName(result.value.staged_artefacts[i])]))


\* The keys of the records of a text that holds one record key=value a
\* line.
RecordKeys(text) ==
    [i \in 1..Len(SplitLines(text)) |->
        SubSeq(SplitLines(text)[i], 1,
               FindStr(SplitLines(text)[i], <<"=">>) - 1)]

\* How many records of the list have the key.
Count(keys, key) == Cardinality({i \in 1..Len(keys) : keys[i] = key})

\* The descriptors the call staged, in the order of the staged paths.
StagedDescriptors ==
    Pick(config.artefacts, KeptIndices(Len(config.artefacts), skipped))

\* C19: when stage_artefacts has returned, the records it appended hold
\* each of the five reserved keys once, artifact_dir with the staging
\* directory and dist_dir with its parent, and for each staged descriptor
\* that declares an output one record with that key and the path at which
\* that descriptor was staged; there is no other record, and no declared
\* output is a reserved key.
PayloadHoldsReservedAndDeclaredKeys ==
    pc = "done" =>
        /\ \A key \in ReservedKeys : Count(RecordKeys(Appended), key) = 1
        /\ DictGet(Payload, <<"a", "r", "t", "i", "f", "a", "c", "t", "_", "d", "i", "r">>) = AsPosix(env.staging_dir)
        /\ DictGet(Payload, <<"d", "i", "s", "t", "_", "d", "i", "r">>) = AsPosix(PathParent(env.staging_dir))
        /\ \A i \in 1..Len(StagedDescriptors) :
              StagedDescriptors[i].output # <<>> =>
                 /\ StagedDescriptors[i].output \notin ReservedKeys
                 /\ Count(RecordKeys(Appended), StagedDescriptors[i].output) = 1
                 /\ DictGet(Payload, StagedDescriptors[i].output)
                      = AsPosix(result.value.staged_artefacts[i])
        /\ Range(RecordKeys(Appended))
             = ReservedKeys
               \cup ({StagedDescriptors[i].output :
                         i \in 1..Len(StagedDescriptors)} \ {<<>>})



\* ------------------------------------------------------------------------
\* Rendering a template that names an absent key
\* ------------------------------------------------------------------------

\* The call failed while rendering a template that names the absent key.
AbsentKeyRaised(key) ==
    /\ pc = "failed"
    /\ result.err.what \in {"str.format", "Invalid template key"}
    /\ result.err.text = key

\* C21: a call that fails on a template naming a key absent from the
\* context raises a StageError whose message names the key, whichever
\* template it was (source, alternative, destination or
\* staging_dir_template), and the context is the one the configuration
\* gives.
AbsentKeyRaisesStageError ==
    AbsentKeyRaised(<<"n", "o", "p", "e">>) =>
        /\ result.err.kind = "StageError"
        /\ result.err.what = "Invalid template key"
        /\ env.context = as_template_context(config).context


\* ------------------------------------------------------------------------
\* The StageResult of a successful call
\* ------------------------------------------------------------------------

\* The path is inside the directory, and is not the directory.
StrictlyInside(path, dir) ==
    /\ IsRelativeTo(Resolve(path), Resolve(dir))
    /\ Resolve(path) # Resolve(dir)

\* The descriptor at idx has been handled and the loop goes on.
DescriptorHandled == pc = "staging" /\ idx' = idx + 1

\* C22: while the loop runs, a descriptor that resolved appends one path
\* inside staging_dir to the staged paths and a skipped descriptor appends
\* none, so that the paths stand in descriptor order; and when the call
\* returns, StageResult.staged_artefacts holds these paths, one for each
\* descriptor that was not skipped, and StageResult.outputs maps the
\* output declared by each staged descriptor to the path of that
\* descriptor, has no other key, and every path in it is a staged path.
ResultListsTheStaged ==
    [][/\ DescriptorHandled =>
             IF idx \in skipped'
             THEN acc'.staged_paths = acc.staged_paths
             ELSE /\ Len(acc'.staged_paths) = Len(acc.staged_paths) + 1
                  /\ SubSeq(acc'.staged_paths, 1, Len(acc.staged_paths))
                       = acc.staged_paths
                  /\ StrictlyInside(acc'.staged_paths[Len(acc'.staged_paths)],
                                    env.staging_dir)
       /\ pc' = "done" =>
             /\ result'.value.staging_dir = env.staging_dir
             /\ result'.value.staged_artefacts = acc.staged_paths
             /\ Len(acc.staged_paths)
                  = Len(config.artefacts) - Cardinality(skipped)
             /\ \A i \in 1..Len(acc.staged_paths) :
                   StagedDescriptors[i].output # <<>> =>
                      /\ DictHas(result'.value.outputs,
                                 StagedDescriptors[i].output)
                      /\ DictGet(result'.value.outputs,
                                 StagedDescriptors[i].output)
                           = acc.staged_paths[i]
             /\ Range(DictKeys(result'.value.outputs))
                  = {StagedDescriptors[i].output :
                        i \in 1..Len(StagedDescriptors)} \ {<<>>}
             /\ Len(DictKeys(result'.value.outputs))
                  = Cardinality(Range(DictKeys(result'.value.outputs)))
             /\ \A k \in Range(DictKeys(result'.value.outputs)) :
                   DictGet(result'.value.outputs, k) \in Range(acc.staged_paths)
      ]_vars


\* C23: when stage_artefacts has returned, StageResult.checksums has as
\* many entries as artefacts were staged, and for each staged artefact the
\* entry under the name of its file is the digest of the bytes of the
\* staged file and the digest in the sidecar of that file (whose text is
\* the digest, two spaces, the name and a newline).
ChecksumsRecordTheStaged ==
    pc = "done" =>
        /\ Len(result.value.checksums) = Len(result.value.staged_artefacts)
        /\ \A i \in 1..Len(result.value.staged_artefacts) :
              /\ DictHas(result.value.checksums,
                         PathName(result.value.staged_artefacts[i]))
              /\ IsFile(fs, result.value.staged_artefacts[i])
              /\ DictGet(result.value.checksums,
                         PathName(result.value.staged_artefacts[i]))
                   = HexDigest(ReadBytes(fs, result.value.staged_artefacts[i]))
              /\ IsFile(fs, SidecarPath(result.value.staged_artefacts[i],
                                        ChecksumAlgorithm))
              /\ ReadBytes(fs, SidecarPath(result.value.staged_artefacts[i],
                                           ChecksumAlgorithm))
                   = SidecarText(DictGet(result.value.checksums,
                                         PathName(result.value.staged_artefacts[i])),
                                 PathName(result.value.staged_artefacts[i]))


\* ------------------------------------------------------------------------
\* Literal patterns
\* ------------------------------------------------------------------------

\* The rendered patterns the resolver is asked about: names of files, of
\* directories and of nothing, relative and absolute, with and without
\* wildcard characters.
ProbedPatterns ==
    {<<"A">>, <<"M">>, <<"b">>, <<"b", "/", "1">>, <<"b", "/", "3">>, <<"b", "/", ".", ".", "/", "A">>, <<"/", "w", "/", "A">>,
     <<"/", "w", "/", "b", "/", "2">>, <<"/", "w", "/", "M">>, <<"/", "w", "/", "b">>, <<"c", "]">>, <<"]">>, <<"b", "/", "*">>,
     <<"b", "/", "?">>, <<"[", "b", "]", "/", "1">>, <<"/", "w", "/", "b", "/", "[", "1", "2", "]">>}

\* The text holds one of the characters.
HoldsOneOf(text, chars) == \E i \in 1..Len(text) : text[i] \in chars

\* The path a literal pattern names: the pattern when it is absolute, the
\* pattern joined to the workspace otherwise.
LiteralPath(pattern) ==
    IF PurePath(pattern).abs THEN PurePath(pattern)
    ELSE PathJoin(Workspace, PurePath(pattern))

\* The resolver gives the path the pattern names when that is a regular
\* file, and not-found otherwise, under the given order of enumeration.
ResolvedLiterally(pattern, order) ==
    _match_candidate_path(fs, Workspace, pattern, order)
        = IF IsFile(fs, LiteralPath(pattern))
          THEN SomePath(LiteralPath(pattern))
          ELSE NoPath

\* C24 as stated: the resolver takes a pattern for a literal path exactly
\* when the pattern holds none of the characters * ? [ ], and a literal
\* pattern gives the path it names (itself when absolute, joined to the
\* workspace otherwise) when that path is a regular file and not-found, as
\* a value, when it is missing or a directory.
LiteralExactlyWithoutStarQueryBrackets ==
    \A order \in Orders(fs) :
        \A pattern \in ProbedPatterns :
            /\ ~HasMagic(pattern)
                  <=> ~HoldsOneOf(pattern, {"*", "?", "[", "]"})
            /\ ~HoldsOneOf(pattern, {"*", "?", "[", "]"}) =>
                  ResolvedLiterally(pattern, order)

\* C24 as the code has it: the same with the characters * ? [ alone; a
\* pattern that holds "]" and none of them is a literal path.
LiteralExactlyWithoutStarQueryOpenBracket ==
    \A order \in Orders(fs) :
        \A pattern \in ProbedPatterns :
            /\ ~HasMagic(pattern) <=> ~HoldsOneOf(pattern, {"*", "?", "["})
            /\ ~HoldsOneOf(pattern, {"*", "?", "["}) =>
                  ResolvedLiterally(pattern, order)

\* A call staged the file c], which its source names literally, while the
\* directory b/3 and the missing M are there to be found not to be files.
LiteralBracketStaged ==
    /\ pc = "done"
    /\ config.artefacts = BracketList
    /\ result.value.staged_artefacts
         = <<PathJoin(env.staging_dir, PurePath(<<"c", "]">>))>>
    /\ IsFile(fs, LiteralPath(<<"c", "]">>))
    /\ ~IsFile(fs, LiteralPath(<<"b", "/", "3">>))
    /\ ~IsFile(fs, LiteralPath(<<"M">>))


\* ------------------------------------------------------------------------
\* scripts/upload_release_assets.py
\* ------------------------------------------------------------------------
\* path.suffix: the name from its last "." on, unless that "." starts or
\* ends the name.
PathSuffix(name) ==
    LET dots == {i \in 1..Len(name) : name[i] = "."}
        last == IF dots = {} THEN 0 ELSE CHOOSE i \in dots : \A j \in dots : j <= i
    IN IF 1 < last /\ last < Len(name) THEN SubSeq(name, last, Len(name))
       ELSE <<>>

_is_candidate(name, bin_name) ==
    \/ name \in {bin_name, bin_name \o <<".", "e", "x", "e">>, bin_name \o <<".", "1">>}
    \/ \E n \in 0..Len(name) :
          SubSeq(name, n + 1, Len(name)) = <<".", "s", "h", "a", "2", "5", "6">>
    \/ PathSuffix(name) \in {<<".", "d", "e", "b">>, <<".", "r", "p", "m">>, <<".", "p", "k", "g">>, <<".", "m", "s", "i">>}

\* _resolve_asset_name, on the parts of path.relative_to(dist_dir)
_resolve_asset_name(relative_parts) ==
    IF Len(relative_parts) = 1 THEN relative_parts[1]
    ELSE Replace(StrJoin(<<"/">>, SubSeq(relative_parts, 1,
                                         Len(relative_parts) - 1)),
                 "/", <<"_", "_">>)
         \o <<"-">> \o relative_parts[Len(relative_parts)]

\* sorted(dist_dir.rglob("*")) filtered by is_file and _is_candidate: the
\* parts of the candidate paths, in ascending order.
_iter_candidate_paths(f, dist_dir, bin_name) ==
    SelectSeq(SortedParts(IF IsDir(f, dist_dir)
                          THEN {q \in DOMAIN f :
                                   /\ IsPrefix(Locate(f, dist_dir).at, q)
                                   /\ q # Locate(f, dist_dir).at}
                          ELSE {}),
              LAMBDA q : f[q].kind = "file"
                         /\ _is_candidate(q[Len(q)], bin_name))

\* The AssetError discover_assets raises; what it returns is the list of
\* its ReleaseAsset records, with no error.
AssetError(what) == [err |-> "AssetError", what |-> what, assets |-> <<>>]

\* _register_asset without the test for an earlier asset of that name.
RegisterUnchecked(asset_name, seen) == [err |-> FALSE, seen |-> seen \cup {asset_name}]

\* _register_asset: seen is the set of the names registered so far.
_register_asset(asset_name, seen) ==
    IF asset_name \in seen THEN [err |-> TRUE, seen |-> seen]
    ELSE [err |-> FALSE, seen |-> seen \cup {asset_name}]

\* The loop of discover_assets over the candidate paths that remain.
RECURSIVE DiscoverFrom(_, _, _, _, _)
DiscoverFrom(f, root, paths, assets, seen) ==
    IF paths = <<>>
    THEN (IF assets = <<>> THEN AssetError("No artefacts discovered")
          ELSE [err |-> "none", what |-> "", assets |-> assets])
    ELSE IF Len(f[paths[1]].bytes) <= 0
    THEN AssetError("is empty")
    ELSE IF _register_asset(
                _resolve_asset_name(SubSeq(paths[1], Len(root) + 1,
                                           Len(paths[1]))), seen).err
    THEN AssetError("Asset name collision")
    ELSE DiscoverFrom(
             f, root, Tail(paths),
             Append(assets,
                    [path |-> [abs |-> TRUE, parts |-> paths[1]],
                     asset_name |-> _resolve_asset_name(
                                        SubSeq(paths[1], Len(root) + 1,
                                               Len(paths[1]))),
                     size |-> Len(f[paths[1]].bytes)]),
             _register_asset(
                 _resolve_asset_name(SubSeq(paths[1], Len(root) + 1,
                                            Len(paths[1]))), seen).seen)

discover_assets(f, dist_dir, bin_name) ==
    IF ~Locate(f, dist_dir).ok
    THEN AssetError("does not exist")
    ELSE DiscoverFrom(f, Locate(f, dist_dir).at,
                      _iter_candidate_paths(f, dist_dir, bin_name), <<>>, {})

\* The arguments of main: dist_dir and bin_name.
UploadDistDir == PurePath(<<"/", "r">>)
UploadBinName == <<"n">>

\* The files that may lie under dist_dir, with their bytes: candidates at
\* the top and in nested directories, two that fold to the same asset
\* name, an empty candidate, files that are no candidates, and a directory
\* with the name of a candidate.
UploadCatalogue ==
    {[at |-> <<"n">>, bytes |-> <<"x">>],
     [at |-> <<"x", ".", "d", "e", "b">>, bytes |-> <<"x">>],
     [at |-> <<"d", "/", "x", ".", "d", "e", "b">>, bytes |-> <<"y", "y">>],
     [at |-> <<"d", "-", "x", ".", "d", "e", "b">>, bytes |-> <<"z">>],
     [at |-> <<"d", "/", "e", "/", "x", ".", "d", "e", "b">>, bytes |-> <<"x">>],
     [at |-> <<"z", ".", "r", "p", "m">>, bytes |-> <<>>],
     [at |-> <<"t", ".", "t", "x", "t">>, bytes |-> <<>>],
     [at |-> <<"p", ".", "d", "e", "b", "/", "n", ".", "1">>, bytes |-> <<"x">>],
     [at |-> <<".", "d", "e", "b">>, bytes |-> <<"x">>]}

\* The filesystem with dist_dir and the chosen files in it.
DistTree(files) ==
    [q \in {<<>>, UploadDistDir.parts}
           \cup UNION {{UploadDistDir.parts \o SubSeq(PurePath(e.at).parts, 1, n) :
                           n \in 1..Len(PurePath(e.at).parts)} : e \in files} |->
        IF \E e \in files : UploadDistDir.parts \o PurePath(e.at).parts = q
        THEN FileNode((CHOOSE e \in files :
                          UploadDistDir.parts \o PurePath(e.at).parts = q).bytes, 1)
        ELSE DirNode]

\* The filesystems main is run in: dist_dir with any choice of the files,
\* dist_dir missing, and a regular file where dist_dir should be.
DistTrees ==
    {DistTree(files) : files \in SUBSET UploadCatalogue}
    \cup {(<<>> :> DirNode),
          (<<>> :> DirNode) @@ (UploadDistDir.parts :> FileNode(<<"x">>, 1))}

\* The release the assets are uploaded to.
ReleaseTag == <<"v">>

\* The arguments upload_assets gives gh for one asset.
GhUpload(asset) ==
    <<<<"r", "e", "l", "e", "a", "s", "e">>, <<"u", "p", "l", "o", "a", "d">>, ReleaseTag,
      AsPosix(asset.path) \o <<"#">> \o asset.asset_name, <<"-", "-", "c", "l", "o", "b", "b", "e", "r">>>>

\* The exit code of main, once it has returned.
Exit(code) == [status |-> "returned", code |-> code]

\* main is about to run: acc holds the assets, history the gh commands
\* run, values the lines printed on stdout and stderr those on stderr.
UploadInit ==
    /\ fs \in DistTrees
    /\ config \in {[dry_run |-> b] : b \in BOOLEAN}
    /\ pc = "main"
    /\ idx = 0
    /\ acc = <<>>
    /\ history = <<>>
    /\ values = <<>>
    /\ stderr = <<>>
    /\ result = [status |-> "none", code |-> 0]
    /\ env = NoEnv
    /\ attempts = <<>>
    /\ skipped = {}
    /\ now = FirstNow
    /\ fs0 = fs
    /\ now0 = FirstNow

\* main, lines 325-332: discover_assets, and the summary of a dry run.
Discover ==
    /\ pc = "main"
    /\ \E found \in {discover_assets(fs, UploadDistDir, UploadBinName)} :
          IF found.err # "none"
          THEN /\ pc' = "exit"
               /\ result' = Exit(1)
               /\ stderr' = <<found.what>>
               /\ UNCHANGED <<acc, idx, values>>
          ELSE /\ pc' = "uploading"
               /\ acc' = found.assets
               /\ idx' = 1
               /\ values' = IF config.dry_run
                            THEN <<[line |-> "Planned uploads:",
                                    assets |-> found.assets]>>
                            ELSE <<>>
               /\ UNCHANGED <<result, stderr>>
    /\ UNCHANGED <<config, fs, now, env, attempts, skipped, fs0, now0, history>>

\* One iteration of the loop of upload_assets that runs gh also in a dry
\* run.
UploadOneDespiteDryRun(dry_run, asset, outcome) ==
    [printed |-> <<>>,
     run     |-> IF outcome = "CommandNotFound" THEN <<>>
                 ELSE <<GhUpload(asset)>>,
     raised  |-> IF outcome = "ok" THEN "none" ELSE outcome]

\* One iteration of the loop of upload_assets, lines 272-284: a dry run
\* prints the command; otherwise gh is looked up (CommandNotFound when it
\* is not installed) and run, and a run that fails raises
\* ProcessExecutionError.  outcome is what the environment does.
UploadOne(dry_run, asset, outcome) ==
    IF dry_run
    THEN [printed |-> <<[line |-> "[dry-run] gh",
                         command |-> GhUpload(asset)]>>,
          run |-> <<>>, raised |-> "none"]
    ELSE [printed |-> <<>>,
          run     |-> IF outcome = "CommandNotFound" THEN <<>>
                      ELSE <<GhUpload(asset)>>,
          raised  |-> IF outcome = "ok" THEN "none" ELSE outcome]

\* upload_assets handles the next asset; gh is looked up before the first
\* upload only, and main turns an exception of the upload into exit
\* code 1 (lines 334-337).
UploadAsset ==
    /\ pc = "uploading"
    /\ idx <= Len(acc)
    /\ \E outcome \in {"ok", "ProcessExecutionError"}
                       \cup (IF idx = 1 THEN {"CommandNotFound"} ELSE {}) :
          \E step \in {UploadOne(config.dry_run, acc[idx], outcome)} :
             /\ values' = values \o step.printed
             /\ history' = history \o step.run
             /\ IF step.raised = "none"
                THEN /\ idx' = idx + 1
                     /\ UNCHANGED <<pc, result, stderr>>
                ELSE /\ pc' = "exit"
                     /\ result' = Exit(1)
                     /\ stderr' = <<step.raised>>
                     /\ idx' = idx
    /\ UNCHANGED <<config, fs, now, env, attempts, skipped, fs0, now0, acc>>

\* upload_assets has run every asset: main returns 0, line 339.
UploadReturn ==
    /\ pc = "uploading"
    /\ idx > Len(acc)
    /\ pc' = "exit"
    /\ result' = Exit(0)
    /\ UNCHANGED <<config, fs, now, env, attempts, skipped, fs0, now0, acc,
                   idx, history, values, stderr>>

UploadSpec == UploadInit /\ [][Discover \/ UploadAsset \/ UploadReturn]_vars


\* ------------------------------------------------------------------------
\* The assets discover_assets returns
\* ------------------------------------------------------------------------

\* The candidate files under dist_dir, and the parts of a path below it.
CandidateFiles(f) ==
    {q \in DOMAIN f :
        /\ IsPrefix(UploadDistDir.parts, q)
        /\ q # UploadDistDir.parts
        /\ f[q].kind = "file"
        /\ _is_candidate(q[Len(q)], UploadBinName)}
BelowDist(q) == SubSeq(q, Len(UploadDistDir.parts) + 1, Len(q))

\* The asset name of a file: its name when it lies in dist_dir itself,
\* and dir__sub-name when it lies in the directory dir/sub of dist_dir.
FoldedName(relative_parts) ==
    IF Len(relative_parts) = 1 THEN relative_parts[1]
    ELSE StrJoin(<<"_", "_">>,
                 SubSeq(relative_parts, 1, Len(relative_parts) - 1))
         \o <<"-">> \o relative_parts[Len(relative_parts)]

\* dist_dir exists and holds a candidate, no candidate is empty and no two
\* candidates have the same asset name.
Publishable(f) ==
    /\ UploadDistDir.parts \in DOMAIN f
    /\ CandidateFiles(f) # {}
    /\ \A q \in CandidateFiles(f) : Len(f[q].bytes) > 0
    /\ \A q, r \in CandidateFiles(f) :
          q # r => FoldedName(BelowDist(q)) # FoldedName(BelowDist(r))

\* discover_assets returned the list acc, or raised.
DiscoveryReturned == pc # "main" /\ acc # <<>>
DiscoveryRaised == pc # "main" /\ acc = <<>>

\* C25: the list discover_assets returns is not empty and holds, in
\* ascending order of their paths, the candidate files under dist_dir and
\* no other, each with its size, which is greater than zero, and its
\* asset name, the names being pairwise distinct; and it raises AssetError
\* instead exactly when dist_dir does not exist, holds no candidate, holds
\* an empty candidate or holds two candidates of the same asset name.
DiscoveryListsValidAssets ==
    /\ DiscoveryReturned =>
          /\ Publishable(fs)
          /\ {acc[i].path.parts : i \in 1..Len(acc)} = CandidateFiles(fs)
          /\ \A i, j \in 1..Len(acc) :
                i < j => /\ PartsLess(acc[i].path.parts, acc[j].path.parts)
                         /\ acc[i].asset_name # acc[j].asset_name
          /\ \A i \in 1..Len(acc) :
                /\ acc[i].size = Len(fs[acc[i].path.parts].bytes)
                /\ acc[i].size > 0
                /\ acc[i].asset_name = FoldedName(BelowDist(acc[i].path.parts))
    /\ DiscoveryRaised =>
          /\ ~Publishable(fs)
          /\ pc = "exit"
          /\ stderr \in {<<"does not exist">>, <<"No artefacts discovered">>,
                         <<"is empty">>, <<"Asset name collision">>}

\* discover_assets returned the candidates of the top of dist_dir and of
\* nested directories, the file of the directory d/e as d__e-x.deb.
NestedAssetsDiscovered ==
    /\ DiscoveryReturned
    /\ Len(acc) >= 3
    /\ \E i \in 1..Len(acc) :
          /\ acc[i].asset_name = <<"d", "_", "_", "e", "-", "x", ".", "d", "e", "b">>
          /\ BelowDist(acc[i].path.parts) = <<<<"d">>, <<"e">>, <<"x", ".", "d", "e", "b">>>>


\* ------------------------------------------------------------------------
\* The uploads of main
\* ------------------------------------------------------------------------

\* C26: main runs gh only after discover_assets has returned the assets of
\* a directory that passes its validation, and never in a dry run.  When
\* discovery fails it returns 1 and runs nothing; in a dry run it prints
\* the summary and one line for each asset and returns 0; otherwise each
\* command it runs is gh release upload for the next asset in the order
\* of discovery, a failed upload is the last one and makes it return 1,
\* and it returns 0 when it has uploaded every asset.
UploadsOnlyWhatWasValidated ==
    [][/\ pc # "exit"
       /\ (pc = "main" /\ ~Publishable(fs)) =>
             /\ pc' = "exit"
             /\ result' = Exit(1)
             /\ history' = <<>>
       /\ history' # history =>
             /\ ~config.dry_run
             /\ Publishable(fs)
             /\ pc = "uploading"
             /\ Len(history) < Len(acc)
             /\ history' = Append(history, GhUpload(acc[Len(history) + 1]))
       /\ (pc = "uploading" /\ stderr' # stderr) =>
             /\ pc' = "exit"
             /\ result' = Exit(1)
       /\ (pc' = "exit" /\ Publishable(fs) /\ config.dry_run) =>
             /\ result' = Exit(0)
             /\ history' = <<>>
             /\ Len(values') = 1 + Len(acc)
             /\ values'[1].assets = acc
             /\ \A i \in 1..Len(acc) :
                   values'[i + 1].command = GhUpload(acc[i])
       /\ (pc' = "exit" /\ Publishable(fs) /\ ~config.dry_run) =>
             /\ values' = <<>>
             /\ IF stderr' = <<>>
                THEN /\ result' = Exit(0)
                     /\ Len(history') = Len(acc)
                ELSE /\ result' = Exit(1)
                     /\ Len(history') <= Len(acc)
      ]_vars

\* main returned 1 after the second upload failed: it had uploaded the
\* first asset, and the third was left alone.
StoppedAtFailedUpload ==
    /\ pc = "exit"
    /\ result = Exit(1)
    /\ ~config.dry_run
    /\ Len(acc) = 3
    /\ Len(history) = 2
    /\ stderr = <<"ProcessExecutionError">>


\* ------------------------------------------------------------------------
\* What a call of stage_artefacts touches
\* ------------------------------------------------------------------------
\* The entries that the call has created, removed or changed so far.
Touched ==
    {q \in DOMAIN fs0 \cup DOMAIN fs :
        q \notin DOMAIN fs0 \/ q \notin DOMAIN fs \/ fs0[q] # fs[q]}

\* A directory above the staging directory that the call created.
CreatedAbove(q) ==
    /\ IsPrefix(q, StagingRoot)
    /\ q \notin DOMAIN fs0
    /\ q \in DOMAIN fs
    /\ fs[q].kind = "dir"

\* The output file holds what it held before the call, and more after it.
SinkAppended(q) ==
    /\ q = GithubOutputFile.parts
    /\ q \in DOMAIN fs
    /\ fs[q].kind = "file"
    /\ IsPrefix(SinkOf(fs0).bytes, fs[q].bytes)

\* The call has computed its staging directory.
StagingDirKnown ==
    pc = "staging" \/ (pc \in {"done", "failed"} /\ env.staging_dir # FsRoot)

\* A directory above the output file that the call created.
CreatedAboveSink(q) ==
    /\ IsPrefix(q, GithubOutputFile.parts)
    /\ q # GithubOutputFile.parts
    /\ q \notin DOMAIN fs0
    /\ q \in DOMAIN fs
    /\ fs[q].kind = "dir"

\* Every entry the call touched is at or below the staging directory, is
\* a directory it created above the staging directory, or is the output
\* file, appended to.
TouchesOnlyStagingDirParentsAndSink ==
    /\ StagingDirKnown =>
          \A q \in Touched :
              IsPrefix(StagingRoot, q) \/ CreatedAbove(q) \/ SinkAppended(q)
    /\ (pc = "failed" /\ ~StagingDirKnown) => Touched = {}

\* C27: in every run of stage_artefacts, successful or failed, every entry
\* of the filesystem that the call created, removed or changed lies at or
\* below the staging directory, except the directories above the staging
\* directory that it created, the output file, which was only appended
\* to, and the missing directories above the output file, which it
\* created; a call that failed before it computed the staging directory
\* touched nothing.
TouchesOnlyStagingDirAndSinkPath ==
    /\ StagingDirKnown =>
          \A q \in Touched :
              \/ IsPrefix(StagingRoot, q)
              \/ CreatedAbove(q)
              \/ SinkAppended(q)
              \/ CreatedAboveSink(q)
    /\ (pc = "failed" /\ ~StagingDirKnown) => Touched = {}

\* The call returned after it created the directory above the staging
\* directory, staged a file and appended to the output file.
StagedBelowNewParent ==
    /\ pc = "done"
    /\ \E q \in Touched : CreatedAbove(q) /\ q # StagingRoot
    /\ \E q \in Touched : SinkAppended(q) /\ SinkOf(fs0).exists
    /\ Len(result.value.staged_artefacts) >= 1


\* ------------------------------------------------------------------------
\* The sources of the staged artefacts
\* ------------------------------------------------------------------------
\* The file that the descriptor at idx resolves to under the order of
\* enumeration, when it resolves to one.
ResolvedAt(order) ==
    _resolve_artefact_source(fs, Workspace, config.artefacts[idx],
                             env.context, order)

\* The file at path holds in the filesystem after what it held before.
KeptAt(before, after, path) ==
    /\ IsFile(after, path)
    /\ ReadBytes(after, path) = ReadBytes(before, path)

\* C28: whenever stage_artefacts has handled a descriptor, whether it
\* staged it or raised, the file that the descriptor's patterns resolved
\* to still exists with the bytes it had, also when that file is one that
\* an earlier descriptor staged in the same run.
ResolvedSourceIsKept ==
    [][AtDescriptor =>
          \E order \in Orders(fs) :
              /\ fs' = IterStep(fs, env.context, env.staging_dir,
                                config.artefacts[idx], order, now).fs
              /\ (ResolvedAt(order).err.kind = "none"
                  /\ ResolvedAt(order).source.found)
                    => KeptAt(fs, fs', ResolvedAt(order).source.path)]_vars


\* ------------------------------------------------------------------------
\* .github/workflows/scripts/stage_common.py
\* ------------------------------------------------------------------------
\* base / names[1] / names[2] / ...
Below(base, names) == [base EXCEPT !.parts = @ \o names]

\* The second rule of _find_manpage: the files build/*/out/<bin>.1.
BuiltManpages(f, build_root, bin_name, order) ==
    IF ~IsDir(f, build_root) THEN <<>>
    ELSE SelectSeq(PathGlob(f, build_root,
                            <<"*", "/", "o", "u", "t", "/">> \o bin_name \o <<".", "1">>, order),
                   LAMBDA candidate : IsFile(f, candidate))

\* _find_manpage: the generated page, else the one match, else the last of
\* the matches sorted by modification time and then by path.
_find_manpage(f, workspace, target, bin_name, order) ==
    LET generated == Below(workspace, <<<<"t", "a", "r", "g", "e", "t">>, <<"g", "e", "n", "e", "r", "a", "t", "e", "d", "-", "m", "a", "n">>, target,
                                        <<"r", "e", "l", "e", "a", "s", "e">>, bin_name \o <<".", "1">>>>)
        matches == BuiltManpages(f,
                                 Below(workspace, <<<<"t", "a", "r", "g", "e", "t">>, target,
                                                    <<"r", "e", "l", "e", "a", "s", "e">>, <<"b", "u", "i", "l", "d">>>>),
                                 bin_name, order)
    IN IF IsFile(f, generated) THEN SomePath(generated)
       ELSE IF matches = <<>> THEN NoPath
       ELSE IF Len(matches) = 1 THEN SomePath(matches[1])
       ELSE SomePath(CHOOSE p \in Range(matches) :
                        \A q \in Range(matches) \ {p} :
                            KeyGreater(MtimeKey(f, p), MtimeKey(f, q)))

\* _validate_and_locate_sources: bin_src, man_src and licence_src, or the
\* message of the RuntimeError.
_validate_and_locate_sources(f, workspace, target, bin_name, bin_ext, order) ==
    LET bin_src == Below(workspace, <<<<"t", "a", "r", "g", "e", "t">>, target, <<"r", "e", "l", "e", "a", "s", "e">>,
                                      bin_name \o bin_ext>>)
        man == _find_manpage(f, workspace, target, bin_name, order)
        licence_src == Below(workspace, <<<<"L", "I", "C", "E", "N", "S", "E">>>>)
    IN [err |-> IF ~IsFile(f, bin_src) THEN "Binary not found"
                ELSE IF ~man.found THEN "Man page not found"
                ELSE IF ~IsFile(f, licence_src) THEN "Licence file not found"
                ELSE "none",
        sources |-> <<bin_src, man.path, licence_src>>]

\* _prepare_artifact_directory: mkdir of dist, rmtree of what is at the
\* artefact directory (which must then be a directory), mkdir.
_prepare_artifact_directory(f, dist_dir, artifact_dir) ==
    IF ~CanMkdir(f, dist_dir.parts) THEN [err |-> "OSError", fs |-> f]
    ELSE IF IsFile(Mkdir(f, dist_dir.parts), artifact_dir)
    THEN [err |-> "OSError", fs |-> Mkdir(f, dist_dir.parts)]
    ELSE [err |-> "none",
          fs  |-> Mkdir(RmTreeAt(Mkdir(f, dist_dir.parts), artifact_dir.parts),
                        artifact_dir.parts)]

\* shutil.copy2(src, artifact_dir / src.name) for the three sources, one
\* after the other.
RECURSIVE CopySources(_, _, _)
CopySources(f, artifact_dir, sources) ==
    IF sources = <<>> THEN f
    ELSE CopySources(Copy2(f, sources[1],
                           Below(artifact_dir, <<PathName(sources[1])>>)),
                     artifact_dir, Tail(sources))

\* _write_checksum of the helper for each staged path: the sidecar
\* "<path>.sha256" holds "<digest>  <name>\n".
RECURSIVE WriteSha256(_, _, _)
WriteSha256(f, paths, stamp) ==
    IF paths = <<>> THEN f
    ELSE WriteSha256(PutFile(f, SidecarPath(paths[1], <<"s", "h", "a", "2", "5", "6">>).parts,
                             FileNode(SidecarText(HexDigest(ReadBytes(f, paths[1])),
                                                  PathName(paths[1])),
                                      stamp)),
                     Tail(paths), stamp)

\* _escape_output_value
_escape_output_value(value) ==
    Replace(Replace(Replace(AsPosix(value), "%", <<"%", "2", "5">>),
                    "\r", <<"%", "0", "D">>),
            "\n", <<"%", "0", "A">>)

\* _write_github_outputs: one line per entry of its dictionary, in its
\* order; github_output.open("w") needs the parent directory and replaces
\* what the file held.
_write_github_outputs(f, github_output, stage_result, stamp) ==
    IF ~IsDir(f, PathParent(github_output)) \/ IsDir(f, github_output)
    THEN [err |-> "OSError", fs |-> f]
    ELSE [err |-> "none",
          fs  |-> PutFile(f, github_output.parts,
                          FileNode(<<"a", "r", "t", "i", "f", "a", "c", "t", "_", "d", "i", "r", "=">> \o _escape_output_value(stage_result.artifact_dir) \o <<"\n">>
                                   \o <<"b", "i", "n", "a", "r", "y", "_", "p", "a", "t", "h", "=">> \o _escape_output_value(stage_result.binary_path) \o <<"\n">>
                                   \o <<"m", "a", "n", "_", "p", "a", "t", "h", "=">> \o _escape_output_value(stage_result.man_path) \o <<"\n">>
                                   \o <<"l", "i", "c", "e", "n", "s", "e", "_", "p", "a", "t", "h", "=">> \o _escape_output_value(stage_result.license_path) \o <<"\n">>,
                                   stamp))]

\* The StageResult of the helper.
HelperResult(artifact_dir, sources) ==
    [artifact_dir |-> artifact_dir,
     binary_path  |-> Below(artifact_dir, <<PathName(sources[1])>>),
     man_path     |-> Below(artifact_dir, <<PathName(sources[2])>>),
     license_path |-> Below(artifact_dir, <<PathName(sources[3])>>)]

\* stage_artifacts after its sources were looked for: a missing source
\* raises; else the artefact directory is prepared, the sources are
\* copied, the checksums and the outputs are written.
StageLocated(f, prepared, github_output, stage_result, located, stamp) ==
    IF located.err # "none"
    THEN [err |-> "RuntimeError", what |-> located.err, fs |-> f,
          value |-> stage_result]
    ELSE IF prepared.err # "none"
    THEN [err |-> prepared.err, what |-> "", fs |-> prepared.fs,
          value |-> stage_result]
    ELSE LET written ==
                 _write_github_outputs(
                     WriteSha256(CopySources(prepared.fs,
                                             stage_result.artifact_dir,
                                             located.sources),
                                 <<stage_result.binary_path,
                                   stage_result.man_path,
                                   stage_result.license_path>>, stamp),
                     github_output, stage_result, stamp)
         IN [err |-> written.err, what |-> "", fs |-> written.fs,
             value |-> stage_result]

stage_artifacts(f, workspace, github_output, order, stamp) ==
    LET artifact_dir == Below(workspace,
                              <<<<"d", "i", "s", "t">>,
                                BinName \o <<"_">> \o Platform \o <<"_">> \o Arch>>)
        located == _validate_and_locate_sources(f, workspace, Target, BinName,
                                                BinExt, order)
    IN StageLocated(f,
                    _prepare_artifact_directory(f, Below(workspace, <<<<"d", "i", "s", "t">>>>),
                                                artifact_dir),
                    github_output, HelperResult(artifact_dir, located.sources),
                    located, stamp)

\* The files a build may leave in the workspace of the helper: the binary,
\* the generated man page, two man pages of build scripts (the first with
\* a modification time that is chosen), and the licence.
BuildFile(names, bytes, mtime) ==
    Below(Workspace, names).parts :> FileNode(bytes, mtime)

BuildCatalogue(m) ==
    {BuildFile(<<<<"t", "a", "r", "g", "e", "t">>, Target, <<"r", "e", "l", "e", "a", "s", "e">>, BinName>>, <<"x">>, 1),
     BuildFile(<<<<"t", "a", "r", "g", "e", "t">>, <<"g", "e", "n", "e", "r", "a", "t", "e", "d", "-", "m", "a", "n">>, Target, <<"r", "e", "l", "e", "a", "s", "e">>,
                 BinName \o <<".", "1">>>>, <<"g">>, 1),
     BuildFile(<<<<"t", "a", "r", "g", "e", "t">>, Target, <<"r", "e", "l", "e", "a", "s", "e">>, <<"b", "u", "i", "l", "d">>, <<"a">>,
                 <<"o", "u", "t">>, BinName \o <<".", "1">>>>, <<"a">>, m),
     BuildFile(<<<<"t", "a", "r", "g", "e", "t">>, Target, <<"r", "e", "l", "e", "a", "s", "e">>, <<"b", "u", "i", "l", "d">>, <<"b">>,
                 <<"o", "u", "t">>, BinName \o <<".", "1">>>>, <<"b">>, 1),
     BuildFile(<<<<"L", "I", "C", "E", "N", "S", "E">>>>, <<"l">>, 1),
     BuildFile(<<<<"d", "i", "s", "t">>, BinName \o <<"_">> \o Platform \o <<"_">> \o Arch,
                 <<"o", "l", "d">>>>, <<"o">>, 1)}

\* The filesystem that holds the files and the directories above them.
RECURSIVE WithFiles(_, _)
WithFiles(f, files) ==
    IF files = {} THEN f
    ELSE LET file == CHOOSE x \in files : TRUE
         IN WithFiles(file @@ Mkdir(f, SubSeq(CHOOSE q \in DOMAIN file : TRUE, 1,
                                              Len(CHOOSE q \in DOMAIN file : TRUE) - 1)),
                      files \ {file})

\* What is at the output file before the call: nothing, its directory
\* alone, or the records of an earlier step.
OutputsBefore ==
    {<<>> :> DirNode,
     PurePath(<<"/", "o">>).parts :> DirNode,
     EarlierOutput}

BuildTrees ==
    {WithFiles(before @@ (<<>> :> DirNode) @@ (Workspace.parts :> DirNode), files) :
        before \in OutputsBefore,
        files \in UNION {SUBSET BuildCatalogue(m) : m \in {1, 2}}}

\* stage_artifacts is about to be called: fs0 is the filesystem before
\* the call.
HelperInit ==
    /\ fs \in BuildTrees
    /\ config = [workspace |-> Workspace, github_output |-> GithubOutputFile]
    /\ pc = "call"
    /\ idx = 0
    /\ acc = <<>>
    /\ history = <<>>
    /\ values = <<>>
    /\ stderr = <<>>
    /\ result = [status |-> "none", err |-> "none", what |-> ""]
    /\ env = NoEnv
    /\ attempts = <<>>
    /\ skipped = {}
    /\ now = FirstNow
    /\ fs0 = fs
    /\ now0 = FirstNow

\* The call of stage_artifacts, lines 74-96.
StageArtifacts ==
    /\ pc = "call"
    /\ \E order \in Orders(fs) :
          \E staged \in {stage_artifacts(fs, config.workspace,
                                         config.github_output, order, now)} :
             /\ fs' = staged.fs
             /\ pc' = IF staged.err = "none" THEN "returned" ELSE "raised"
             /\ result' = [status |-> IF staged.err = "none" THEN "returned"
                                       ELSE "raised",
                           err |-> staged.err,
                           what |-> staged.what, value |-> staged.value]
    /\ now' = now + 1
    /\ UNCHANGED <<config, idx, env, acc, attempts, stderr, skipped, fs0, now0,
                   values, history>>

HelperSpec == HelperInit /\ [][StageArtifacts]_vars


\* The four records of a staged bundle, as lines of the output file.
BundleRecords(value) ==
    <<"a", "r", "t", "i", "f", "a", "c", "t", "_", "d", "i", "r", "=">> \o EscapeScalar(AsPosix(value.artifact_dir)) \o <<"\n">>
    \o <<"b", "i", "n", "a", "r", "y", "_", "p", "a", "t", "h", "=">> \o EscapeScalar(AsPosix(value.binary_path)) \o <<"\n">>
    \o <<"m", "a", "n", "_", "p", "a", "t", "h", "=">> \o EscapeScalar(AsPosix(value.man_path)) \o <<"\n">>
    \o <<"l", "i", "c", "e", "n", "s", "e", "_", "p", "a", "t", "h", "=">> \o EscapeScalar(AsPosix(value.license_path)) \o <<"\n">>

\* The call raised because the binary, the man page or the licence is
\* missing.
MissingSourceRaised == pc = "raised" /\ result.err = "RuntimeError"

\* C29: after stage_artifacts of the workflow helper has returned, the
\* output file holds what it held before the call followed by the
\* artifact_dir, binary_path, man_path and license_path records; and a
\* call that raised because a source is missing has left the whole
\* filesystem, the artefact directory and the output file included, as it
\* was.
HelperKeepsEarlierRecords ==
    /\ pc = "returned" =>
          /\ SinkOf(fs).exists
          /\ SinkOf(fs).bytes = SinkOf(fs0).bytes \o BundleRecords(result.value)
    /\ MissingSourceRaised => fs = fs0


\* ------------------------------------------------------------------------
\* .github/workflows/scripts/package_linux.py: run_nfpm
\* ------------------------------------------------------------------------
MaxFormats == 3

\* The formats asked for, and the exit codes of nfpm: 0, two failures one
\* of which has two digits, and the death by signal 9.
PackageFormats == {<<"d", "e", "b">>, <<"r", "p", "m">>}
ExitCodes == {0, 1, 12, 0 - 9}

NfpmBin == <<"n", "f", "p", "m">>
NfpmConfigPath == <<"/", "w", "/", "d", "i", "s", "t", "/", "n", "f", "p", "m", ".", "y", "a", "m", "l">>
NfpmOutdir == <<"/", "w", "/", "d", "i", "s", "t">>

\* str(n) of an int
RECURSIVE IntText(_)
IntText(n) ==
    IF n < 0 THEN <<"-">> \o IntText(0 - n)
    ELSE IF n < 10 THEN <<Ascii[17 + n]>>
    ELSE IntText(n \div 10) \o <<Ascii[17 + (n % 10)]>>

\* cmd of run_nfpm for one format
NfpmCommand(nfpm_bin, config_path, outdir, fmt) ==
    <<nfpm_bin, <<"p", "a", "c", "k", "a", "g", "e">>, <<"-", "-", "p", "a", "c", "k", "a", "g", "e", "r">>, fmt, <<"-", "f">>, config_path,
      <<"-", "t">>, outdir>>

\* The handler of CalledProcessError forgetting the failure.
ForgetFailure(failures, fmt, returncode) == failures

\* subprocess.run(cmd, check=True) of run_nfpm and its handler: an exit
\* code other than 0 raises CalledProcessError, and the handler appends
\* (fmt, int(exc.returncode or 1)) to failures.
RecordFailure(failures, fmt, returncode) ==
    IF returncode = 0 THEN failures
    ELSE Append(failures, [fmt |-> fmt, code |-> returncode])

\* "; ".join(f"{fmt} failed with exit {code}" for fmt, code in failures)
RECURSIVE FailureMessage(_)
FailureMessage(failures) ==
    IF failures = <<>> THEN <<>>
    ELSE failures[1].fmt \o <<" ", "f", "a", "i", "l", "e", "d", " ", "w", "i", "t", "h", " ", "e", "x", "i", "t", " ">> \o IntText(failures[1].code)
         \o (IF Len(failures) > 1 THEN <<";", " ">> ELSE <<>>)
         \o FailureMessage(Tail(failures))

\* run_nfpm is about to run: history holds the invocations of nfpm with
\* their exit codes, acc the failures, values the lines printed on stdout
\* and stderr those printed on stderr.
NfpmInit ==
    /\ config \in {[formats |-> formats] :
                     formats \in UNION {[1..n -> PackageFormats] :
                                           n \in 0..MaxFormats}}
    /\ pc = "packaging"
    /\ idx = 1
    /\ acc = <<>>
    /\ history = <<>>
    /\ values = <<>>
    /\ stderr = <<>>
    /\ result = [status |-> "none", err |-> "none", message |-> <<>>]
    /\ fs = <<>> :> DirNode
    /\ env = NoEnv
    /\ attempts = <<>>
    /\ skipped = {}
    /\ now = FirstNow
    /\ fs0 = fs
    /\ now0 = FirstNow

\* One iteration of the loop of run_nfpm, lines 241-257; returncode is the
\* exit code of this invocation of nfpm.
RunFormat ==
    /\ pc = "packaging"
    /\ idx <= Len(config.formats)
    /\ \E returncode \in ExitCodes :
          /\ history' = Append(history,
                               [cmd |-> NfpmCommand(NfpmBin, NfpmConfigPath,
                                                    NfpmOutdir,
                                                    config.formats[idx]),
                                code |-> returncode])
          /\ acc' = RecordFailure(acc, config.formats[idx], returncode)
          /\ stderr' = IF returncode = 0 THEN stderr
                       ELSE Append(stderr,
                                   [fmt |-> config.formats[idx],
                                    exit |-> returncode])
    /\ values' = Append(values, config.formats[idx])
    /\ idx' = idx + 1
    /\ UNCHANGED <<config, fs, now, pc, env, attempts, skipped, result, fs0,
                   now0>>

\* After the loop, lines 258-261: raise PackagingError when a format
\* failed, else return.
FinishNfpm ==
    /\ pc = "packaging"
    /\ idx > Len(config.formats)
    /\ IF acc # <<>>
       THEN /\ pc' = "raised"
            /\ result' = [status |-> "raised", err |-> "PackagingError",
                          message |-> FailureMessage(acc)]
       ELSE /\ pc' = "returned"
            /\ result' = [status |-> "returned", err |-> "none",
                          message |-> <<>>]
    /\ UNCHANGED <<config, fs, now, idx, env, acc, attempts, stderr, skipped,
                   fs0, now0, values, history>>

NfpmSpec == NfpmInit /\ [][RunFormat \/ FinishNfpm]_vars

\* The invocations of nfpm that failed, in the order in which they ran.
FailedInvocations == SelectSeq(history, LAMBDA run : run.code # 0)

\* The items of the message of the PackagingError: the text between the
\* separators "; ".
MessageItems(message) ==
    [i \in 1..Len(Split(message, ";")) |->
        IF i = 1 THEN Split(message, ";")[i] ELSE Tail(Split(message, ";")[i])]

\* C30: run_nfpm has invoked nfpm once for each of the formats before the
\* one it is at, in the given order, whether or not an earlier invocation
\* failed; when it is over it has invoked nfpm once for every format, it
\* has raised PackagingError exactly when an invocation ended with an exit
\* code other than 0, the message then holding one item "<format> failed
\* with exit <code>" for each failed invocation, in order, and it has
\* returned normally otherwise.
NfpmRunsEveryFormatThenReports ==
    /\ Len(history) = (IF pc = "packaging" THEN idx - 1 ELSE Len(config.formats))
    /\ \A i \in 1..Len(history) :
          history[i].cmd = <<NfpmBin, <<"p", "a", "c", "k", "a", "g", "e">>, <<"-", "-", "p", "a", "c", "k", "a", "g", "e", "r">>,
                             config.formats[i], <<"-", "f">>, NfpmConfigPath,
                             <<"-", "t">>, NfpmOutdir>>
    /\ pc \in {"packaging", "returned", "raised"}
    /\ pc = "raised" <=> (pc # "packaging" /\ FailedInvocations # <<>>)
    /\ pc = "returned" => result.err = "none"
    /\ pc = "raised" =>
          /\ result.err = "PackagingError"
          /\ Len(MessageItems(result.message)) = Len(FailedInvocations)
          /\ \A i \in 1..Len(FailedInvocations) :
                MessageItems(result.message)[i]
                  = FailedInvocations[i].cmd[4] \o <<" ", "f", "a", "i", "l", "e", "d", " ", "w", "i", "t", "h", " ", "e", "x", "i", "t", " ">>
                    \o IntText(FailedInvocations[i].code)

\* run_nfpm raised after three invocations of which the first and the
\* last failed and the second succeeded.
OtherFormatsRunAfterAFailure ==
    /\ pc = "raised"
    /\ Len(history) = 3
    /\ history[1].code = 1
    /\ history[2].code = 0
    /\ history[3].code = 12

====
